---------------------------- MODULE Spec2Model ----------------------------
(***************************************************************************)
(* A model of the vpn-aggregator transform chain: descriptor parsing and   *)
(* re-encoding (scripts/parser.py), enrichment (scripts/enricher.py) and   *)
(* filtering (scripts/filters.py).  Each part has a specification of its   *)
(* own: SpecLine and SpecText, SpecEnrich, SpecFilter.                     *)
(*                                                                         *)
(* Representation.  A Python str is a sequence of one-character strings.   *)
(* A Python value that may be a str, an int, a bool or None is a record    *)
(* [t, s, n] with a type tag t, the characters s (for a str) and the       *)
(* number n (for an int or a bool), so that values of different Python     *)
(* types can be compared.  A dict is the sequence of its [k, v] items in   *)
(* insertion order, with no key twice.                                     *)
(***************************************************************************)
EXTENDS Integers, Sequences, FiniteSets, TLC

VARIABLES
    \* NodeFilter.apply: the input list, the configuration, the results of
    \* a first call and of a second call on the first call's result
    \* (fDeduped is apply's local of that name, kept to state the claims)
    fNodes, fConfig, fDeduped, fFiltered, fStats, fFiltered2, fStats2,
    \* Enricher.enrich_all: the node list, the enricher's configuration in
    \* the last pass, the passes made; and, to state the claims, the list as
    \* it was before the last pass and what the lookups of that pass
    \* answered, the positions its loop reached in the order it reached them,
    \* and the TCP connects it made for each node
    eNodes, eConfig, ePasses, eBefore, eOutcomes, eVisited, eProbes,
    \* ConfigParser.parse and rebuild_uri: a line, the result of parsing it,
    \* the uri rebuilt from the node, the result of parsing that
    lLine, lNode, lUri, lNode2,
    \* ConfigParser.parse_text: the text, the source label and the nodes
    \* returned; and, to state the claims, the lines the text was made of
    tText, tSource, tNodes, tLines,
    \* Profiler.build_profiles: the node list, the profiler's min_nodes, the
    \* time of the call and the profiles returned
    pNodes, pMinNodes, pNow, pProfiles,
    \* Repacker.repack: the node list, the repacker's configuration and what
    \* the call left in the output directories
    rNodes, rConfig, rOut,
    \* chunk_keys of the batch builder and of the poster: the keys loaded,
    \* the batch size, the builder's batches, the list as the poster's
    \* shuffle left it and the poster's batches
    cKeys, cPerChunk, cChunks, cShuffled, cShuffledChunks,
    \* the runs of the pipeline in one working directory: the number of the
    \* run, what loading the configuration ended in, the directories the
    \* run made and the sources it requested, the files of the working
    \* directory (each with the run that wrote it), self.nodes, the list
    \* the last stage was given as the stage left it, the filter's
    \* counters, the profiles, the repacker's groups and the labels it
    \* rendered, and the keys the batch builder loaded after the run
    uRun, uLoaded, uMade, uFetched, uFiles, uNodes, uGiven, uStats,
    uProfiles, uOut, uLabels, uKeys,
    \* the position of the run
    pc

fvars == <<fNodes, fConfig, fDeduped, fFiltered, fStats, fFiltered2, fStats2>>
evars == <<eNodes, eConfig, ePasses, eBefore, eOutcomes, eVisited, eProbes>>
lvars == <<lLine, lNode, lUri, lNode2>>
tvars == <<tText, tSource, tNodes, tLines>>
pvars == <<pNodes, pMinNodes, pNow, pProfiles>>
rvars == <<rNodes, rConfig, rOut>>
cvars == <<cKeys, cPerChunk, cChunks, cShuffled, cShuffledChunks>>
uvars == <<uRun, uLoaded, uMade, uFetched, uFiles, uNodes, uGiven, uStats, uProfiles, uOut, uLabels, uKeys>>
vars == <<fvars, evars, lvars, tvars, pvars, rvars, cvars, uvars, pc>>

-----------------------------------------------------------------------------
(* Python values *)

VStr(s) == [t |-> "str", s |-> s, n |-> 0]
VInt(n) == [t |-> "int", s |-> <<>>, n |-> n]
VBool(b) == [t |-> "bool", s |-> <<>>, n |-> IF b THEN 1 ELSE 0]
VNone == [t |-> "none", s |-> <<>>, n |-> 0]
PyTrue == VBool(TRUE)
PyFalse == VBool(FALSE)

\* bool(v): the truth value Python gives v in `if v`, `a or b`, `a and b`
Truthy(v) ==
    CASE v.t = "str" -> v.s # <<>>
      [] v.t = "int" -> v.n # 0
      [] v.t = "bool" -> v.n = 1
      [] OTHER -> FALSE

\* isinstance(v, (int, float)): bool is a subclass of int
IsNumber(v) == v.t \in {"int", "bool"}

\* a == b: numbers compare by value across int and bool
PyEq(a, b) ==
    IF IsNumber(a) /\ IsNumber(b) THEN a.n = b.n ELSE a = b

\* v in S for a Python set or list S
PyIn(v, S) == \E x \in S : PyEq(x, v)

\* a or b
PyOr(a, b) == IF Truthy(a) THEN a ELSE b

-----------------------------------------------------------------------------
(* dict: items in insertion order *)

RECURSIVE IndexOf(_, _, _)
IndexOf(d, k, i) ==
    IF i > Len(d) THEN 0
    ELSE IF d[i].k = k THEN i
    ELSE IndexOf(d, k, i + 1)

\* k in d
Has(d, k) == IndexOf(d, k, 1) # 0

\* d.get(k, default)
GetOr(d, k, default) ==
    LET i == IndexOf(d, k, 1) IN IF i = 0 THEN default ELSE d[i].v

\* d.get(k)
Get(d, k) == GetOr(d, k, VNone)

\* d[k] = v
Put(d, k, v) ==
    LET i == IndexOf(d, k, 1)
    IN  IF i = 0 THEN Append(d, [k |-> k, v |-> v])
        ELSE [d EXCEPT ![i] = [k |-> k, v |-> v]]

\* d.setdefault(k, v)
SetDefault(d, k, v) == IF Has(d, k) THEN d ELSE Put(d, k, v)

Keys(d) == {d[i].k : i \in 1..Len(d)}

\* two dicts hold the same items (dict equality ignores insertion order)
SameDict(a, b) ==
    /\ Keys(a) = Keys(b)
    /\ \A k \in Keys(a) : Get(a, k) = Get(b, k)

-----------------------------------------------------------------------------
(* the bag keys the enricher and the filter use *)

K_ip == <<"i", "p">>
K_country == <<"c", "o", "u", "n", "t", "r", "y">>
K_asn == <<"a", "s", "n">>
K_asn_name == <<"a", "s", "n", "_", "n", "a", "m", "e">>
K_alive == <<"a", "l", "i", "v", "e">>
K_ping == <<"p", "i", "n", "g">>
K_method == <<"m", "e", "t", "h", "o", "d">>

\* VPNNode
VPNNode(protocol, host, port, uuid, password, remark, tls, sni, extra) ==
    [protocol |-> protocol, host |-> host, port |-> port, uuid |-> uuid,
     password |-> password, remark |-> remark, tls |-> tls, sni |-> sni,
     extra |-> extra]

-----------------------------------------------------------------------------
(* scripts/filters.py *)

eu_countries ==
    {VStr(c) : c \in
      {<<"D","E">>, <<"N","L">>, <<"F","R">>, <<"P","L">>, <<"S","E">>,
       <<"F","I">>, <<"I","T">>, <<"E","S">>, <<"C","Z">>, <<"A","T">>,
       <<"B","E">>, <<"D","K">>, <<"I","E">>, <<"P","T">>, <<"R","O">>,
       <<"B","G">>, <<"S","K">>, <<"S","I">>, <<"G","R">>, <<"H","U">>,
       <<"H","R">>, <<"E","E">>, <<"L","V">>, <<"L","T">>, <<"L","U">>,
       <<"C","Y">>, <<"M","T">>}}

\* the key of _dedup: (protocol, host, port, uuid or password or "")
DedupKey(n) ==
    <<n.protocol, n.host, n.port, PyOr(PyOr(n.uuid, n.password), VStr(<<>>))>>

\* tuple equality of two keys
SameKey(a, b) ==
    /\ a[1] = b[1]
    /\ PyEq(a[2], b[2])
    /\ a[3] = b[3]
    /\ PyEq(a[4], b[4])

RECURSIVE DedupFrom(_, _, _)
DedupFrom(ns, seen, result) ==
    IF ns = <<>> THEN result
    ELSE LET key == DedupKey(Head(ns))
         IN  IF \E s \in seen : SameKey(s, key)
             THEN DedupFrom(Tail(ns), seen, result)
             ELSE DedupFrom(Tail(ns), seen \cup {key}, Append(result, Head(ns)))

\* a slip that forgets a key once a duplicate of it was dropped
RECURSIVE DedupForgetting(_, _, _)
DedupForgetting(ns, seen, result) ==
    IF ns = <<>> THEN result
    ELSE LET key == DedupKey(Head(ns))
         IN  IF \E s \in seen : SameKey(s, key)
             THEN DedupForgetting(Tail(ns), seen \ {key}, result)
             ELSE DedupForgetting(Tail(ns), seen \cup {key},
                                  Append(result, Head(ns)))

_dedup_forgetting(ns) == DedupForgetting(ns, {}, <<>>)

\* a slip that keeps the last occurrence of each key instead of the first
RECURSIVE DedupLast(_)
DedupLast(ns) ==
    IF ns = <<>> THEN <<>>
    ELSE IF \E i \in 2..Len(ns) : SameKey(DedupKey(ns[i]), DedupKey(ns[1]))
         THEN DedupLast(Tail(ns))
         ELSE <<Head(ns)>> \o DedupLast(Tail(ns))

_dedup_last(ns) == DedupLast(ns)

\* NodeFilter._dedup
_dedup(ns) == DedupFrom(ns, {}, <<>>)

\* a slip that makes the ping bounds exclusive
PingRejectsExclusive(cfg, ping) ==
    /\ IsNumber(ping)
    /\ \/ cfg.min_ping_ms # VNone /\ ping.n <= cfg.min_ping_ms.n
       \/ cfg.max_ping_ms # VNone /\ ping.n >= cfg.max_ping_ms.n

\* the ping rule of _apply_filters
PingRejects(cfg, ping) ==
    /\ IsNumber(ping)
    /\ \/ cfg.min_ping_ms # VNone /\ ping.n < cfg.min_ping_ms.n
       \/ cfg.max_ping_ms # VNone /\ ping.n > cfg.max_ping_ms.n

\* a loop body that has no rule for the alive flag
PassesKeepingDead(cfg, n) ==
    LET country == Get(n.extra, K_country)
        asn == Get(n.extra, K_asn)
        ping == Get(n.extra, K_ping)
    IN  /\ ~(Truthy(country) /\ PyIn(country, cfg.exclude_countries))
        /\ ~(/\ cfg.whitelist_countries # {}
             /\ Truthy(country)
             /\ ~PyIn(country, cfg.whitelist_countries))
        /\ ~(cfg.eu_only /\ Truthy(country) /\ ~PyIn(country, eu_countries))
        /\ ~(Truthy(asn) /\ PyIn(asn, cfg.asn_blacklist))
        /\ ~PingRejects(cfg, ping)

\* the body of the loop of _apply_filters: TRUE when the node is appended
Passes(cfg, n) ==
    LET country == Get(n.extra, K_country)
        asn == Get(n.extra, K_asn)
        ping == Get(n.extra, K_ping)
        alive == Get(n.extra, K_alive)
    IN  /\ ~(Truthy(country) /\ PyIn(country, cfg.exclude_countries))
        /\ ~(/\ cfg.whitelist_countries # {}
             /\ Truthy(country)
             /\ ~PyIn(country, cfg.whitelist_countries))
        /\ ~(cfg.eu_only /\ Truthy(country) /\ ~PyIn(country, eu_countries))
        /\ ~(Truthy(asn) /\ PyIn(asn, cfg.asn_blacklist))
        /\ alive # PyFalse
        /\ ~PingRejects(cfg, ping)

\* NodeFilter._apply_filters
_apply_filters(cfg, ns) == SelectSeq(ns, LAMBDA n : Passes(cfg, n))

\* a slip that counts the policy drops from the input length
StatsFromInput(ns, deduped, kept) ==
    [before |-> Len(ns),
     dropped_dup |-> Len(ns) - Len(deduped),
     dropped_filter |-> Len(ns) - Len(kept),
     after |-> Len(kept)]

\* the FilterStats that apply fills in
FilterStats(ns, deduped, kept) ==
    [before |-> Len(ns),
     dropped_dup |-> Len(ns) - Len(deduped),
     dropped_filter |-> Len(deduped) - Len(kept),
     after |-> Len(kept)]

\* NodeFilter.apply: (filtered, stats.to_dict()), with its local deduped
apply(cfg, ns) ==
    LET deduped == _dedup(ns)
        kept == _apply_filters(cfg, deduped)
    IN  [filtered |-> kept, stats |-> FilterStats(ns, deduped, kept),
         deduped |-> deduped]

-----------------------------------------------------------------------------
(* scripts/enricher.py *)

\* the node cap the constructor sets in CI
CI_max_nodes_per_run == 3000

\* EnricherConfig after Enricher.__init__: in CI the cap defaults to 3000
\* and the liveness probe is off.  geo_country and geo_asn say whether
\* the constructor could open the two databases.
EnricherInit(cfg, ci) ==
    IF ci
    THEN [cfg EXCEPT
            !.max_nodes_per_run =
                IF cfg.max_nodes_per_run <= 0 THEN CI_max_nodes_per_run
                ELSE cfg.max_nodes_per_run,
            !.enable_alive = FALSE]
    ELSE cfg

\* a resolver step that records its failure in the bag
DnsStepRecordingFailure(cfg, extra, resolved) ==
    IF cfg.enable_dns /\ ~Has(extra, K_ip)
    THEN Put(extra, K_ip, resolved)
    ELSE extra

\* _enrich_node, DNS resolve: resolved is what _resolve_ip returns, the
\* address or None
DnsStep(cfg, extra, resolved) ==
    IF cfg.enable_dns /\ ~Has(extra, K_ip)
    THEN IF Truthy(resolved) THEN Put(extra, K_ip, resolved) ELSE extra
    ELSE extra

S_XX == VStr(<<"X", "X">>)

\* a slip that writes the unknown-country mark over a country already there
CountryStepOverwriting(cfg, extra, found) ==
    IF cfg.geo_country
    THEN IF found.hit THEN Put(extra, K_country, found.iso_code)
         ELSE Put(extra, K_country, S_XX)
    ELSE extra

\* _enrich_node, country lookup: found.hit is FALSE when the reader raises
CountryStep(cfg, extra, found) ==
    IF cfg.geo_country
    THEN IF found.hit THEN Put(extra, K_country, found.iso_code)
         ELSE SetDefault(extra, K_country, S_XX)
    ELSE extra

\* _enrich_node, ASN lookup
AsnStep(cfg, extra, found) ==
    IF cfg.geo_asn
    THEN IF found.hit
         THEN Put(Put(extra, K_asn, found.number), K_asn_name, found.organization)
         ELSE SetDefault(extra, K_asn, VNone)
    ELSE extra

\* int(ping_ms) of a time given in tenths of a millisecond
IntOfTenths(tenths) == tenths \div 10

\* _enrich_node, liveness probe: tenths is -1 when _tcp_ping returns None
AliveStep(extra, tenths) ==
    IF tenths < 0
    THEN Put(Put(extra, K_alive, PyFalse), K_ping, VNone)
    ELSE Put(Put(extra, K_alive, PyTrue), K_ping, VInt(IntOfTenths(tenths)))

\* Enricher._enrich_node: the bag after the call; o holds the answers of
\* the resolver, of the two databases and of the TCP connect
_enrich_node(cfg, node, o) ==
    LET e1 == DnsStep(cfg, node.extra, o.dns)
        ip == Get(e1, K_ip)
    IN  IF ~Truthy(ip) THEN [node EXCEPT !.extra = e1]
        ELSE LET e2 == IF cfg.enable_geoip
                       THEN AsnStep(cfg, CountryStep(cfg, e1, o.country), o.asn)
                       ELSE e1
                 e3 == IF cfg.enable_alive THEN AliveStep(e2, o.ping) ELSE e2
             IN  [node EXCEPT !.extra = e3]

\* _enrich_node, the calls of _tcp_ping it makes: none when the bag has
\* no ip after the DNS step, for the method has returned by then
ProbeTargets(cfg, node, o) ==
    LET ip == Get(DnsStep(cfg, node.extra, o.dns), K_ip)
    IN  IF ~Truthy(ip) THEN <<>>
        ELSE IF cfg.enable_alive
             THEN <<[host |-> PyOr(ip, node.host), port |-> node.port]>>
             ELSE <<>>

\* a loop that leaves one position late
EnrichCountLate(cfg, ns) ==
    LET max_n == IF cfg.max_nodes_per_run # 0 THEN cfg.max_nodes_per_run
                 ELSE Len(ns)
    IN  IF max_n + 1 < Len(ns) THEN (IF max_n + 1 < 0 THEN 0 ELSE max_n + 1)
        ELSE Len(ns)

\* the nodes enrich_all visits: all of them when the cap is 0
EnrichCount(cfg, ns) ==
    LET max_n == IF cfg.max_nodes_per_run # 0 THEN cfg.max_nodes_per_run
                 ELSE Len(ns)
    IN  IF max_n < Len(ns) THEN (IF max_n < 0 THEN 0 ELSE max_n) ELSE Len(ns)

\* Enricher.enrich_all: outs[i] holds the answers for the i-th node
enrich_all(cfg, ns, outs) ==
    [i \in 1..Len(ns) |->
        IF i <= EnrichCount(cfg, ns) THEN _enrich_node(cfg, ns[i], outs[i])
        ELSE ns[i]]

\* enrich_all, the positions the loop reaches, in the order it reaches them
Visited(cfg, ns) == [j \in 1..EnrichCount(cfg, ns) |-> j]

\* enrich_all, the TCP connects made for each node
Probes(cfg, ns, outs) ==
    [i \in 1..Len(ns) |->
        IF i <= EnrichCount(cfg, ns) THEN ProbeTargets(cfg, ns[i], outs[i])
        ELSE <<>>]

-----------------------------------------------------------------------------
(* str: characters and their codes.  The model covers ASCII text; a        *)
(* character outside the printable range is an opaque one-element string.  *)

\* the printable ASCII characters, in code order from 32 to 126 (the
\* grave accent, 96, is written as an opaque character)
Ascii ==
    <<" ", "!", "\"", "#", "$", "%", "&", "'", "(", ")", "*", "+", ",", "-",
      ".", "/", "0", "1", "2", "3", "4", "5", "6", "7", "8", "9", ":", ";",
      "<", "=", ">", "?", "@", "A", "B", "C", "D", "E", "F", "G", "H", "I",
      "J", "K", "L", "M", "N", "O", "P", "Q", "R", "S", "T", "U", "V", "W",
      "X", "Y", "Z", "[", "\\", "]", "^", "_", "\\x96", "a", "b", "c", "d", "e",
      "f", "g", "h", "i", "j", "k", "l", "m", "n", "o", "p", "q", "r", "s",
      "t", "u", "v", "w", "x", "y", "z", "{", "|", "}", "~">>

\* chr(b) for a code point b
Chr(b) ==
    IF b \in 32..126 THEN Ascii[b - 31]
    ELSE IF b = 9 THEN "\t"
    ELSE IF b = 10 THEN "\n"
    ELSE IF b = 13 THEN "\r"
    ELSE "\\x" \o ToString(b)

OrdTable == [c \in {Chr(b) : b \in 0..127} |-> CHOOSE b \in 0..127 : Chr(b) = c]

\* ord(c) for an ASCII character c
Ord(c) == OrdTable[c]

IsAscii(c) == c \in DOMAIN OrdTable

\* str.isspace for the characters of the model
Whitespace == {" ", "\t", "\n", "\r"}

Digits == {"0", "1", "2", "3", "4", "5", "6", "7", "8", "9"}

DigitValue(c) == Ord(c) - 48

\* s[i:] and s[:i] with 0-based i, as Python slices
From(s, i) == SubSeq(s, i + 1, Len(s))
Upto(s, i) == SubSeq(s, 1, IF i < Len(s) THEN i ELSE Len(s))

\* s.startswith(p)
StartsWith(s, p) == Len(s) >= Len(p) /\ SubSeq(s, 1, Len(p)) = p

\* the 1-based position of the first c in s at or after i, 0 when none
RECURSIVE Find(_, _, _)
Find(s, c, i) ==
    IF i > Len(s) THEN 0
    ELSE IF s[i] = c THEN i
    ELSE Find(s, c, i + 1)

\* the 1-based position of the last c in s at or before i, 0 when none
RECURSIVE FindLast(_, _, _)
FindLast(s, c, i) ==
    IF i < 1 THEN 0
    ELSE IF s[i] = c THEN i
    ELSE FindLast(s, c, i - 1)

\* c in s
Contains(s, c) == Find(s, c, 1) # 0

\* s.split(c, 1) of a string that contains c: the parts around the first c
SplitFirst(s, c) ==
    LET i == Find(s, c, 1)
    IN  [head |-> SubSeq(s, 1, i - 1), tail |-> SubSeq(s, i + 1, Len(s))]

\* s.rsplit(c, 1) of a string that contains c: the parts around the last c
SplitLast(s, c) ==
    LET i == FindLast(s, c, Len(s))
    IN  [head |-> SubSeq(s, 1, i - 1), tail |-> SubSeq(s, i + 1, Len(s))]

\* s.split(c): the parts between the occurrences of c
RECURSIVE Split(_, _)
Split(s, c) ==
    LET i == Find(s, c, 1)
    IN  IF i = 0 THEN <<s>>
        ELSE <<SubSeq(s, 1, i - 1)>> \o Split(SubSeq(s, i + 1, Len(s)), c)

RECURSIVE LStrip(_)
LStrip(s) ==
    IF s # <<>> /\ Head(s) \in Whitespace THEN LStrip(Tail(s)) ELSE s

RECURSIVE RStrip(_)
RStrip(s) ==
    IF s # <<>> /\ s[Len(s)] \in Whitespace
    THEN RStrip(SubSeq(s, 1, Len(s) - 1)) ELSE s

\* s.strip()
Strip(s) == RStrip(LStrip(s))

\* s.replace(a, b) for single characters a and b
Replace(s, a, b) == [i \in 1..Len(s) |-> IF s[i] = a THEN b ELSE s[i]]

\* sep.join(parts)
RECURSIVE Join(_, _)
Join(parts, sep) ==
    IF parts = <<>> THEN <<>>
    ELSE IF Len(parts) = 1 THEN parts[1]
    ELSE parts[1] \o sep \o Join(Tail(parts), sep)

\* the length of the longest prefix of s made of characters of S
RECURSIVE SpanLen(_, _)
SpanLen(s, S) ==
    IF s # <<>> /\ Head(s) \in S THEN 1 + SpanLen(Tail(s), S) ELSE 0

-----------------------------------------------------------------------------
(* int(), str() and the urllib.parse functions the parser calls *)

RECURSIVE DigitsValue(_, _)
DigitsValue(s, acc) ==
    IF s = <<>> THEN acc
    ELSE IF Head(s) = "_" THEN DigitsValue(Tail(s), acc)
    ELSE DigitsValue(Tail(s), 10 * acc + DigitValue(Head(s)))

\* the digit part of an int literal: digits, with single underscores
\* between digits
IsDigitString(s) ==
    /\ s # <<>>
    /\ \A i \in 1..Len(s) : s[i] \in Digits \cup {"_"}
    /\ s[1] # "_" /\ s[Len(s)] # "_"
    /\ \A i \in 1..(Len(s) - 1) : ~(s[i] = "_" /\ s[i + 1] = "_")

\* int(s) for a str s: ok is FALSE when int raises ValueError
IntOfStr(s) ==
    LET t == Strip(s)
        signed == t # <<>> /\ Head(t) \in {"+", "-"}
        body == IF signed THEN Tail(t) ELSE t
    IN  IF IsDigitString(body)
        THEN [ok |-> TRUE,
              n |-> IF signed /\ Head(t) = "-" THEN 0 - DigitsValue(body, 0)
                    ELSE DigitsValue(body, 0)]
        ELSE [ok |-> FALSE, n |-> 0]

\* int(v) for a value v: int(None) raises TypeError
IntOf(v) ==
    CASE v.t = "str" -> IntOfStr(v.s)
      [] v.t \in {"int", "bool"} -> [ok |-> TRUE, n |-> v.n]
      [] OTHER -> [ok |-> FALSE, n |-> 0]

RECURSIVE NatStr(_)
NatStr(n) ==
    IF n < 10 THEN <<Chr(48 + n)>>
    ELSE NatStr(n \div 10) \o <<Chr(48 + (n % 10))>>

\* str(n) for an int n
DecStr(n) == IF n < 0 THEN <<"-">> \o NatStr(0 - n) ELSE NatStr(n)

\* str(v), as an f-string formats v
PyStr(v) ==
    CASE v.t = "str" -> v.s
      [] v.t = "int" -> DecStr(v.n)
      [] v.t = "bool" -> IF v.n = 1 THEN <<"T", "r", "u", "e">> ELSE <<"F", "a", "l", "s", "e">>
      [] OTHER -> <<"N", "o", "n", "e">>

HexDigits ==
    Digits \cup {"a", "b", "c", "d", "e", "f", "A", "B", "C", "D", "E", "F"}

HexValue(c) ==
    IF c \in Digits THEN DigitValue(c)
    ELSE IF Ord(c) >= 97 THEN Ord(c) - 87
    ELSE Ord(c) - 55

\* urllib.parse.unquote: every %XX with two hex digits becomes the
\* character of that code, any other % stays
RECURSIVE unquote(_)
unquote(s) ==
    IF s = <<>> THEN <<>>
    ELSE IF /\ Head(s) = "%" /\ Len(s) >= 3
            /\ s[2] \in HexDigits /\ s[3] \in HexDigits
         THEN <<Chr(16 * HexValue(s[2]) + HexValue(s[3]))>>
                  \o unquote(SubSeq(s, 4, Len(s)))
         ELSE <<Head(s)>> \o unquote(Tail(s))

\* the loop of urllib.parse.parse_qsl over the name=value fields, keeping
\* for each name the first value as parse_vless does with v[0]
RECURSIVE QsFields(_, _)
QsFields(fields, d) ==
    IF fields = <<>> THEN d
    ELSE LET f == Head(fields)
         IN  IF ~Contains(f, "=") THEN QsFields(Tail(fields), d)
             ELSE LET nv == SplitFirst(f, "=")
                      name == unquote(Replace(nv.head, "+", " "))
                      value == unquote(Replace(nv.tail, "+", " "))
                  IN  IF nv.tail = <<>> THEN QsFields(Tail(fields), d)
                      ELSE QsFields(Tail(fields), SetDefault(d, name, VStr(value)))

\* {k: v[0] for k, v in parse_qs(qs).items()}: fields are separated by &,
\* a field without = or with a blank value is dropped
parse_qs(qs) == QsFields(Split(qs, "&"), <<>>)

-----------------------------------------------------------------------------
(* bytes: str.encode, bytes.decode("utf-8") and base64 *)

\* s.encode() for ASCII text: the codes of the characters
Utf8Encode(s) == [i \in 1..Len(s) |-> Ord(s[i])]

IsCont(bs, i) == i <= Len(bs) /\ bs[i] \in 128..191

\* the decoding of bs from its first byte beyond ASCII on: a byte that
\* does not open a well-formed sequence raises UnicodeDecodeError; a
\* character beyond ASCII is the opaque character of its code point
RECURSIVE Utf8DecodeFrom(_, _)
Utf8DecodeFrom(bs, acc) ==
    IF bs = <<>> THEN [ok |-> TRUE, s |-> acc]
    ELSE LET b == Head(bs)
             bad == [ok |-> FALSE, s |-> <<>>]
             Cp(n, first) ==
                 IF n = 2 THEN first * 64 + (bs[2] - 128)
                 ELSE IF n = 3
                 THEN first * 4096 + (bs[2] - 128) * 64 + (bs[3] - 128)
                 ELSE first * 262144 + (bs[2] - 128) * 4096
                          + (bs[3] - 128) * 64 + (bs[4] - 128)
             Multi(n, first) ==
                 Utf8DecodeFrom(SubSeq(bs, n + 1, Len(bs)),
                                Append(acc, "\\u" \o ToString(Cp(n, first))))
         IN  IF b < 128 THEN Utf8DecodeFrom(Tail(bs), Append(acc, Chr(b)))
             ELSE IF b \in 194..223
             THEN IF IsCont(bs, 2) THEN Multi(2, b - 192) ELSE bad
             ELSE IF b \in 224..239
             THEN IF /\ IsCont(bs, 2) /\ IsCont(bs, 3)
                     /\ (b = 224 => bs[2] >= 160)
                     /\ (b = 237 => bs[2] <= 159)
                  THEN Multi(3, b - 224) ELSE bad
             ELSE IF b \in 240..244
             THEN IF /\ IsCont(bs, 2) /\ IsCont(bs, 3) /\ IsCont(bs, 4)
                     /\ (b = 240 => bs[2] >= 144)
                     /\ (b = 244 => bs[2] <= 143)
                  THEN Multi(4, b - 240) ELSE bad
             ELSE bad

\* bs.decode("utf-8"): ok is FALSE when it raises UnicodeDecodeError
Utf8Decode(bs) ==
    IF \A i \in 1..Len(bs) : bs[i] < 128
    THEN [ok |-> TRUE, s |-> [i \in 1..Len(bs) |-> Chr(bs[i])]]
    ELSE LET first == CHOOSE i \in 1..Len(bs) :
                          bs[i] >= 128 /\ \A j \in 1..(i - 1) : bs[j] < 128
         IN  Utf8DecodeFrom(SubSeq(bs, first, Len(bs)),
                            [i \in 1..(first - 1) |-> Chr(bs[i])])

B64Alphabet ==
    <<"A", "B", "C", "D", "E", "F", "G", "H", "I", "J", "K", "L", "M", "N",
      "O", "P", "Q", "R", "S", "T", "U", "V", "W", "X", "Y", "Z", "a", "b",
      "c", "d", "e", "f", "g", "h", "i", "j", "k", "l", "m", "n", "o", "p",
      "q", "r", "s", "t", "u", "v", "w", "x", "y", "z", "0", "1", "2", "3",
      "4", "5", "6", "7", "8", "9", "+", "/">>

B64Index ==
    [c \in {B64Alphabet[i] : i \in 1..64} |->
        (CHOOSE i \in 1..64 : B64Alphabet[i] = c) - 1]

B64Char(v) == B64Alphabet[v + 1]

\* base64.b64encode(bs).decode(): the k-th character of the output, k
\* from 0, comes from the group of three bytes k \div 4; a group cut short
\* by the end of the input is padded with =
b64encode(bs) ==
    LET n == Len(bs)
        Byte(i) == IF i <= n THEN bs[i] ELSE 0
        CharAt(k) ==
            LET g == 3 * (k \div 4)
                r == k % 4
            IN  IF r = 0 THEN B64Char(Byte(g + 1) \div 4)
                ELSE IF r = 1
                THEN B64Char((Byte(g + 1) % 4) * 16 + (Byte(g + 2) \div 16))
                ELSE IF r = 2
                THEN IF g + 2 > n THEN "="
                     ELSE B64Char((Byte(g + 2) % 16) * 4 + (Byte(g + 3) \div 64))
                ELSE IF g + 3 > n THEN "=" ELSE B64Char(Byte(g + 3) % 64)
    IN  [i \in 1..(4 * ((n + 2) \div 3)) |-> CharAt(i - 1)]

IsB64Data(c) == c \in DOMAIN B64Index

\* the number of data characters of s before position i
DataBefore(s, i) == Cardinality({j \in 1..(i - 1) : IsB64Data(s[j])})

\* binascii.a2b_base64 without strict mode stops reading at position i: a
\* padding character after three characters of a quad, or after two when
\* another padding character came since the last data character
StopsAt(s, i) ==
    /\ s[i] = "="
    /\ \/ DataBefore(s, i) % 4 = 3
       \/ /\ DataBefore(s, i) % 4 = 2
          /\ \E j \in 1..(i - 1) :
                /\ s[j] = "="
                /\ \A m \in j..i : ~IsB64Data(s[m])

\* the bytes of the data characters d: every full quad gives three bytes,
\* a rest of two characters one byte, a rest of three two bytes
B64Bytes(d) ==
    LET n == Len(d)
        v(i) == B64Index[d[i]]
        rest == n % 4
        count == 3 * (n \div 4) + (IF rest = 3 THEN 2 ELSE IF rest = 2 THEN 1 ELSE 0)
        ByteAt(k) ==
            LET g == 4 * (k \div 3)
                r == k % 3
            IN  IF r = 0 THEN v(g + 1) * 4 + (v(g + 2) \div 16)
                ELSE IF r = 1 THEN (v(g + 2) % 16) * 16 + (v(g + 3) \div 4)
                ELSE (v(g + 3) % 4) * 64 + v(g + 4)
    IN  [i \in 1..count |-> ByteAt(i - 1)]

\* base64.b64decode(s) for a str s: a character beyond ASCII raises
\* ValueError; a character outside the alphabet is skipped; an unfinished
\* quad at the end, with no padding that stops the reading, raises
\* binascii.Error
b64decode(s) ==
    LET stops == {i \in 1..Len(s) : StopsAt(s, i)}
        stop == CHOOSE i \in stops : \A j \in stops : i <= j
        read == IF stops = {} THEN s ELSE SubSeq(s, 1, stop - 1)
        data == SelectSeq(read, IsB64Data)
    IN  IF \E i \in 1..Len(s) : ~IsAscii(s[i]) THEN [ok |-> FALSE, bs |-> <<>>]
        ELSE IF stops = {} /\ Len(data) % 4 # 0 THEN [ok |-> FALSE, bs |-> <<>>]
        ELSE [ok |-> TRUE, bs |-> B64Bytes(data)]

\* base64.b64decode(s).decode("utf-8"): ok is FALSE when either raises
B64DecodeText(s) ==
    LET d == b64decode(s)
    IN  IF d.ok THEN Utf8Decode(d.bs) ELSE [ok |-> FALSE, s |-> <<>>]

\* base64.b64encode(s.encode()).decode()
B64EncodeText(s) == b64encode(Utf8Encode(s))

-----------------------------------------------------------------------------
(* json.dumps and json.loads, for the texts whose values are strings,     *)
(* integers, true, false, null, and objects of those; arrays, nested      *)
(* objects and non-integer numbers are outside the model.                 *)

HexChars ==
    <<"0", "1", "2", "3", "4", "5", "6", "7", "8", "9", "a", "b", "c", "d",
      "e", "f">>

\* the JSON escape of one character of a string (ensure_ascii=False)
JsonEscape(c) ==
    IF c = "\"" THEN <<"\\", "\"">>
    ELSE IF c = "\\" THEN <<"\\", "\\">>
    ELSE IF c = "\n" THEN <<"\\", "n">>
    ELSE IF c = "\r" THEN <<"\\", "r">>
    ELSE IF c = "\t" THEN <<"\\", "t">>
    ELSE IF IsAscii(c) /\ Ord(c) < 32
    THEN <<"\\", "u", "0", "0", HexChars[(Ord(c) \div 16) + 1],
           HexChars[(Ord(c) % 16) + 1]>>
    ELSE <<c>>

RECURSIVE JsonEscapeAll(_)
JsonEscapeAll(s) ==
    IF s = <<>> THEN <<>> ELSE JsonEscape(Head(s)) \o JsonEscapeAll(Tail(s))

JsonString(s) == <<"\"">> \o JsonEscapeAll(s) \o <<"\"">>

\* json.dumps of a scalar
JsonScalar(v) ==
    CASE v.t = "str" -> JsonString(v.s)
      [] v.t = "int" -> DecStr(v.n)
      [] v.t = "bool" -> IF v.n = 1 THEN <<"t", "r", "u", "e">> ELSE <<"f", "a", "l", "s", "e">>
      [] OTHER -> <<"n", "u", "l", "l">>

\* json.dumps(d, ensure_ascii=False) of a dict of scalars
dumps(d) ==
    <<"{">>
    \o Join([i \in 1..Len(d) |->
                JsonString(d[i].k) \o <<":", " ">> \o JsonScalar(d[i].v)],
            <<",", " ">>)
    \o <<"}">>

JsonWs == {" ", "\t", "\n", "\r"}

\* the position of the first character at or after i that is not JSON
\* whitespace
RECURSIVE SkipWs(_, _)
SkipWs(s, i) == IF i <= Len(s) /\ s[i] \in JsonWs THEN SkipWs(s, i + 1) ELSE i

\* the text lit stands in s at position i
At(s, i, lit) ==
    i + Len(lit) - 1 <= Len(s) /\ SubSeq(s, i, i + Len(lit) - 1) = lit

JsonFail == [ok |-> FALSE, v |-> VNone, i |-> 0]

\* the scan of a string from position i, after its opening quote
RECURSIVE ScanString(_, _, _)
ScanString(s, i, acc) ==
    IF i > Len(s) THEN JsonFail
    ELSE IF s[i] = "\"" THEN [ok |-> TRUE, v |-> VStr(acc), i |-> i + 1]
    ELSE IF s[i] = "\\"
    THEN IF i + 1 > Len(s) THEN JsonFail
         ELSE IF s[i + 1] \in {"\"", "\\", "/"}
         THEN ScanString(s, i + 2, Append(acc, s[i + 1]))
         ELSE IF s[i + 1] = "n" THEN ScanString(s, i + 2, Append(acc, "\n"))
         ELSE IF s[i + 1] = "r" THEN ScanString(s, i + 2, Append(acc, "\r"))
         ELSE IF s[i + 1] = "t" THEN ScanString(s, i + 2, Append(acc, "\t"))
         ELSE IF s[i + 1] = "b" THEN ScanString(s, i + 2, Append(acc, Chr(8)))
         ELSE IF s[i + 1] = "f" THEN ScanString(s, i + 2, Append(acc, Chr(12)))
         ELSE IF /\ s[i + 1] = "u" /\ i + 5 <= Len(s)
                 /\ \A j \in (i + 2)..(i + 5) : s[j] \in HexDigits
         THEN LET cp == 4096 * HexValue(s[i + 2]) + 256 * HexValue(s[i + 3])
                            + 16 * HexValue(s[i + 4]) + HexValue(s[i + 5])
              IN  ScanString(s, i + 6,
                             Append(acc, IF cp < 128 THEN Chr(cp)
                                         ELSE "\\u" \o ToString(cp)))
         ELSE JsonFail
    ELSE IF IsAscii(s[i]) /\ Ord(s[i]) < 32 THEN JsonFail
    ELSE ScanString(s, i + 1, Append(acc, s[i]))

\* the scan of a scalar at position i
ScanScalar(s, i) ==
    IF i > Len(s) THEN JsonFail
    ELSE IF s[i] = "\"" THEN ScanString(s, i + 1, <<>>)
    ELSE IF At(s, i, <<"n", "u", "l", "l">>) THEN [ok |-> TRUE, v |-> VNone, i |-> i + 4]
    ELSE IF At(s, i, <<"t", "r", "u", "e">>) THEN [ok |-> TRUE, v |-> PyTrue, i |-> i + 4]
    ELSE IF At(s, i, <<"f", "a", "l", "s", "e">>) THEN [ok |-> TRUE, v |-> PyFalse, i |-> i + 5]
    ELSE LET neg == s[i] = "-"
             j == IF neg THEN i + 1 ELSE i
             n == IF j <= Len(s) /\ s[j] = "0" THEN 1
                  ELSE SpanLen(SubSeq(s, j, Len(s)), Digits)
             k == j + n
         IN  IF n = 0 \/ (k <= Len(s) /\ s[k] \in {".", "e", "E"})
             THEN JsonFail
             ELSE LET m == DigitsValue(SubSeq(s, j, k - 1), 0)
                  IN  [ok |-> TRUE, v |-> VInt(IF neg THEN 0 - m ELSE m),
                       i |-> k]

RECURSIVE ScanMembers(_, _, _)

\* after a member's value: the object ends at }, goes on after a comma
MemberEnd(s, d, after) ==
    IF after > Len(s) THEN JsonFail
    ELSE IF s[after] = "}" THEN [ok |-> TRUE, v |-> d, i |-> after + 1]
    ELSE IF s[after] = "," THEN ScanMembers(s, SkipWs(s, after + 1), d)
    ELSE JsonFail

\* a member's value val under the key: a key met again takes the later value
MemberValue(s, d, key, val) ==
    IF ~val.ok THEN JsonFail
    ELSE MemberEnd(s, Put(d, key.v.s, val.v), SkipWs(s, val.i))

\* a member's key and the colon expected at position colon
MemberKey(s, d, key, colon) ==
    IF ~key.ok \/ colon > Len(s) THEN JsonFail
    ELSE IF s[colon] # ":" THEN JsonFail
    ELSE MemberValue(s, d, key, ScanScalar(s, SkipWs(s, colon + 1)))

\* a member from its key on
Member(s, d, key) == MemberKey(s, d, key, SkipWs(s, key.i))

\* the scan of the members of an object from position i, where a key's
\* opening quote is expected
ScanMembers(s, i, d) ==
    IF i > Len(s) THEN JsonFail
    ELSE IF s[i] # "\"" THEN JsonFail
    ELSE Member(s, d, ScanString(s, i + 1, <<>>))

LoadsFail == [ok |-> FALSE, isobj |-> FALSE, obj |-> <<>>, v |-> VNone]

\* the value scanned must be followed by nothing but whitespace
LoadsResult(s, r, isobj) ==
    IF ~r.ok THEN LoadsFail
    ELSE IF SkipWs(s, r.i) <= Len(s) THEN LoadsFail
    ELSE [ok |-> TRUE, isobj |-> isobj,
          obj |-> IF isobj THEN r.v ELSE <<>>,
          v |-> IF isobj THEN VNone ELSE r.v]

\* the scan of an object from position j, after its opening brace
ScanObject(s, j) ==
    IF j <= Len(s) /\ s[j] = "}" THEN [ok |-> TRUE, v |-> <<>>, i |-> j + 1]
    ELSE ScanMembers(s, j, <<>>)

LoadsAt(s, i) ==
    IF i > Len(s) THEN LoadsFail
    ELSE IF s[i] = "{" THEN LoadsResult(s, ScanObject(s, SkipWs(s, i + 1)), TRUE)
    ELSE LoadsResult(s, ScanScalar(s, i), FALSE)

\* json.loads(s): ok is FALSE when it raises; isobj says whether the text
\* is an object, obj is the dict of an object, v the value of a scalar
loads(s) == LoadsAt(s, SkipWs(s, 1))

-----------------------------------------------------------------------------
(* scripts/parser.py: ConfigParser.  A parse result is a record with a    *)
(* kind: "node" with the node, "none" for a returned None, and "raise"    *)
(* for an exception on its way out of the function.                       *)

K_security == <<"s", "e", "c", "u", "r", "i", "t", "y">>
K_sni == <<"s", "n", "i">>
K_add == <<"a", "d", "d">>
K_port == <<"p", "o", "r", "t">>
K_id == <<"i", "d">>
K_ps == <<"p", "s">>
K_tls == <<"t", "l", "s">>
K_uuid == <<"u", "u", "i", "d">>
K_source_name == <<"s", "o", "u", "r", "c", "e", "_", "n", "a", "m", "e">>
K_provider_id == <<"p", "r", "o", "v", "i", "d", "e", "r", "_", "i", "d">>

S_tls == VStr(<<"t", "l", "s">>)
P_vless == <<"v", "l", "e", "s", "s", ":", "/", "/">>
P_vmess == <<"v", "m", "e", "s", "s", ":", "/", "/">>
P_ss == <<"s", "s", ":", "/", "/">>

NoNode ==
    VPNNode("", VNone, 0, VNone, VNone, VNone, FALSE, VNone, <<>>)

Node(n) == [kind |-> "node", node |-> n]
None == [kind |-> "none", node |-> NoNode]
Raise == [kind |-> "raise", node |-> NoNode]

\* try: ... except Exception: return None
ExceptReturnNone(r) == IF r.kind = "raise" THEN None ELSE r

\* uri.rsplit("#", 1) and the unquoted remark, or the whole uri and ""
SplitRemark(uri) ==
    IF Contains(uri, "#")
    THEN LET parts == SplitLast(uri, "#")
         IN  [uri_part |-> parts.head, remark |-> unquote(Strip(parts.tail))]
    ELSE [uri_part |-> uri, remark |-> <<>>]

\* re.match(r"vless://([^@]+)@([^:]+):(\d+)(.*)", s): the identity is the
\* text up to the first @, the host the text from there up to the next
\* colon, the port the digits that follow, and the rest runs to the end of
\* the line
MatchVless(s) ==
    LET rest == From(s, Len(P_vless))
        at == Find(rest, "@", 1)
        afterAt == SubSeq(rest, at + 1, Len(rest))
        colon == Find(afterAt, ":", 1)
        afterColon == SubSeq(afterAt, colon + 1, Len(afterAt))
        nd == SpanLen(afterColon, Digits)
        tail == SubSeq(afterColon, nd + 1, Len(afterColon))
        nl == Find(tail, "\n", 1)
    IN  IF StartsWith(s, P_vless) /\ at > 1 /\ colon > 1 /\ nd >= 1
        THEN [ok |-> TRUE,
              uuid |-> SubSeq(rest, 1, at - 1),
              host |-> SubSeq(afterAt, 1, colon - 1),
              port |-> SubSeq(afterColon, 1, nd),
              query_part |-> IF nl = 0 THEN tail ELSE SubSeq(tail, 1, nl - 1)]
        ELSE [ok |-> FALSE, uuid |-> <<>>, host |-> <<>>, port |-> <<>>,
              query_part |-> <<>>]

\* parse_vless after the match m: the port, the query parameters, the node
VlessNode(m, remark, port, params) ==
    IF ~port.ok THEN Raise
    ELSE Node(VPNNode("vless", VStr(m.host), port.n, VStr(m.uuid), VNone,
                      VStr(remark), PyEq(Get(params, K_security), S_tls),
                      Get(params, K_sni), params))

VlessMatched(m, remark) ==
    IF ~m.ok THEN None
    ELSE VlessNode(m, remark, IntOfStr(m.port),
                   IF StartsWith(m.query_part, <<"?">>)
                   THEN parse_qs(Tail(m.query_part)) ELSE <<>>)

VlessSplit(sr) == VlessMatched(MatchVless(sr.uri_part), sr.remark)

\* the try block of parse_vless
parse_vless_try(uri) == VlessSplit(SplitRemark(uri))

\* ConfigParser.parse_vless
parse_vless(uri) == ExceptReturnNone(parse_vless_try(uri))

\* parse_vmess after json.loads: the node of the object config, with the
\* port that int() gave
VmessNode(config, port) ==
    IF ~port.ok THEN Raise
    ELSE Node(VPNNode("vmess", GetOr(config, K_add, VStr(<<>>)), port.n,
                      GetOr(config, K_id, VStr(<<>>)), VNone,
                      GetOr(config, K_ps, VStr(<<>>)),
                      PyEq(Get(config, K_tls), S_tls), Get(config, K_sni),
                      config))

\* config.get on a value that is not an object raises AttributeError
VmessLoaded(json) ==
    IF ~json.ok THEN Raise
    ELSE IF ~json.isobj THEN Raise
    ELSE VmessNode(json.obj, IntOf(GetOr(json.obj, K_port, VInt(0))))

VmessDecoded(text) == IF ~text.ok THEN Raise ELSE VmessLoaded(loads(text.s))

\* the try block of parse_vmess
parse_vmess_try(uri) ==
    IF ~StartsWith(uri, P_vmess) THEN None
    ELSE VmessDecoded(B64DecodeText(From(uri, 8)))

\* a slip that lets the exceptions of the decoding out of parse_vmess
parse_vmess_unguarded(uri) == parse_vmess_try(uri)

\* ConfigParser.parse_vmess
parse_vmess(uri) == ExceptReturnNone(parse_vmess_try(uri))

\* method, password = text.split(":", 1)
MethodPassword(text) ==
    [method |-> SubSeq(text, 1, Find(text, ":", 1) - 1),
     password |-> SubSeq(text, Find(text, ":", 1) + 1, Len(text))]

\* the credential part of an ss uri: base64 of method:password, or else
\* the literal method:password, or else the whole part as the method
SsDecoded(cred_part, decoded) ==
    IF decoded.ok /\ Contains(decoded.s, ":") THEN MethodPassword(decoded.s)
    ELSE IF Contains(cred_part, ":") THEN MethodPassword(cred_part)
    ELSE [method |-> cred_part, password |-> <<>>]

SsCredentials(cred_part) == SsDecoded(cred_part, B64DecodeText(cred_part))

\* parse_ss after the split at @: host, port = addr_part.split(":", 1)
SsNode(cred, addr_part, remark, port) ==
    IF ~Contains(addr_part, ":") THEN Raise
    ELSE IF ~port.ok THEN Raise
    ELSE Node(VPNNode("ss", VStr(SplitFirst(addr_part, ":").head), port.n,
                      VNone, VStr(cred.password), VStr(remark), FALSE, VNone,
                      <<[k |-> K_method, v |-> VStr(cred.method)]>>))

SsSplit(uri_part, remark) ==
    IF ~Contains(uri_part, "@") THEN None
    ELSE SsNode(SsCredentials(SplitFirst(uri_part, "@").head),
                SplitFirst(uri_part, "@").tail, remark,
                IntOfStr(SplitFirst(SplitFirst(uri_part, "@").tail, ":").tail))

SsRemark(sr) == SsSplit(From(sr.uri_part, 5), sr.remark)

\* the try block of parse_ss
parse_ss_try(uri) ==
    IF ~StartsWith(uri, P_ss) THEN None ELSE SsRemark(SplitRemark(uri))

\* ConfigParser.parse_ss
parse_ss(uri) == ExceptReturnNone(parse_ss_try(uri))

\* ConfigParser.parse after uri.strip()
ParseStripped(uri) ==
    IF StartsWith(uri, P_vless) THEN parse_vless(uri)
    ELSE IF StartsWith(uri, P_vmess) THEN parse_vmess(uri)
    ELSE IF StartsWith(uri, P_ss) THEN parse_ss(uri)
    ELSE None

\* ConfigParser.parse
parse(line) == ParseStripped(Strip(line))

\* "&".join(f"{k}={v}" for k, v in extra.items() if k not in ["uuid"])
VlessParams(extra) ==
    LET kept == SelectSeq(extra, LAMBDA item : item.k # K_uuid)
    IN  Join([i \in 1..Len(kept) |->
                 kept[i].k \o <<"=">> \o PyStr(kept[i].v)], <<"&">>)

S_default_method == <<"a", "e", "s", "-", "2", "5", "6", "-", "g", "c", "m">>

\* ConfigParser.rebuild_uri(node, new_remark)
rebuild_uri(node, new_remark) ==
    LET remark == IF new_remark # VNone THEN new_remark ELSE node.remark
    IN  CASE node.protocol = "vless" ->
               LET params == VlessParams(node.extra)
               IN  P_vless \o PyStr(node.uuid) \o <<"@">> \o PyStr(node.host)
                   \o <<":">> \o DecStr(node.port)
                   \o (IF params # <<>> THEN <<"?">> \o params ELSE <<>>)
                   \o (IF Truthy(remark) THEN <<"#">> \o PyStr(remark) ELSE <<>>)
          [] node.protocol = "vmess" ->
               LET config ==
                       Put(Put(Put(Put(node.extra, K_add, node.host),
                                   K_port, VStr(DecStr(node.port))),
                               K_id, node.uuid),
                           K_ps, remark)
               IN  P_vmess \o B64EncodeText(dumps(config))
          [] node.protocol = "ss" ->
               LET method == GetOr(node.extra, K_method, VStr(S_default_method))
                   cred == PyStr(method) \o <<":">> \o PyStr(node.password)
               IN  P_ss \o B64EncodeText(cred) \o <<"@">> \o PyStr(node.host)
                   \o <<":">> \o DecStr(node.port)
                   \o (IF Truthy(remark) THEN <<"#">> \o PyStr(remark) ELSE <<>>)
          [] OTHER -> <<>>

LineBreaks == {"\n", "\r"}

\* the 1-based position of the first line break in s, 0 when none
FindBreak(s, i) ==
    LET breaks == {k \in i..Len(s) : s[k] \in LineBreaks}
    IN  IF breaks = {} THEN 0
        ELSE CHOOSE k \in breaks : \A m \in breaks : k <= m

\* text.splitlines(): lines end at \n, \r or \r\n; a break at the very end
\* opens no further line
RECURSIVE splitlines(_)
splitlines(text) ==
    IF text = <<>> THEN <<>>
    ELSE LET i == FindBreak(text, 1)
             j == IF /\ text[i] = "\r" /\ i < Len(text) /\ text[i + 1] = "\n"
                  THEN i + 1 ELSE i
         IN  IF i = 0 THEN <<text>>
             ELSE <<SubSeq(text, 1, i - 1)>>
                      \o splitlines(SubSeq(text, j + 1, Len(text)))

\* a slip that writes the source over the keys of the descriptor
StampedOver(nodes, r, source) ==
    IF r.kind # "node" THEN nodes
    ELSE Append(nodes,
                [r.node EXCEPT !.extra =
                    Put(Put(r.node.extra, K_source_name, VStr(source)),
                        K_provider_id, VStr(source))])

\* the loop of parse_text after parse: a rejected line is skipped, the
\* node of an accepted one gets the two keys if it has not got them
Stamped(nodes, r, source) ==
    IF r.kind # "node" THEN nodes
    ELSE Append(nodes,
                [r.node EXCEPT !.extra =
                    SetDefault(SetDefault(r.node.extra, K_source_name,
                                          VStr(source)),
                               K_provider_id, VStr(source))])

\* one turn of the loop of parse_text: the nodes collected so far and the
\* next line, stripped
TextLine(nodes, line, source) ==
    IF line = <<>> THEN nodes ELSE Stamped(nodes, parse(line), source)

RECURSIVE ParseLines(_, _, _)
ParseLines(lines, source, nodes) ==
    IF lines = <<>> THEN nodes
    ELSE ParseLines(Tail(lines), source,
                    TextLine(nodes, Strip(Head(lines)), source))

\* ConfigParser.parse_text(text, source)
parse_text(text, source) == ParseLines(splitlines(text), source, <<>>)

\* no line is being parsed, no text is being parsed
LineIdle == lLine = <<>> /\ lNode = None /\ lUri = <<>> /\ lNode2 = None
TextIdle == tText = <<>> /\ tSource = <<>> /\ tNodes = <<>> /\ tLines = <<>>

-----------------------------------------------------------------------------
(* scripts/profiler.py.  A float that the profiler computes as a quotient  *)
(* of two counts is the pair of the counts; the comparisons with the       *)
(* thresholds are those of the correctly rounded quotients.                *)

K_last_seen_ts == <<"l", "a", "s", "t", "_", "s", "e", "e", "n", "_", "t", "s">>
K_last_seen_iso == <<"l", "a", "s", "t", "_", "s", "e", "e", "n", "_", "i", "s", "o">>
K_last_seen == <<"l", "a", "s", "t", "_", "s", "e", "e", "n">>

S_unknown == VStr(<<"u", "n", "k", "n", "o", "w", "n">>)

\* Profiler.eu_countries
profiler_eu_countries ==
    {VStr(c) : c \in
      {<<"D","E">>, <<"N","L">>, <<"F","R">>, <<"P","L">>, <<"S","E">>,
       <<"F","I">>, <<"I","T">>, <<"E","S">>, <<"C","Z">>, <<"A","T">>,
       <<"B","E">>, <<"D","K">>, <<"I","E">>, <<"P","T">>, <<"R","O">>,
       <<"B","G">>, <<"S","K">>, <<"S","I">>, <<"G","R">>, <<"H","U">>,
       <<"H","R">>, <<"E","E">>, <<"L","V">>, <<"L","T">>, <<"L","U">>,
       <<"C","Y">>, <<"M","T">>}}

\* Profiler.bad_countries
bad_countries ==
    {VStr(c) : c \in {<<"R","U">>, <<"B","Y">>, <<"I","R">>, <<"C","N">>}}

\* a float num / den, den > 0; and None where a float may be None
Float(num, den) == [t |-> "float", num |-> num, den |-> den]
NoFloat == [t |-> "none", num |-> 0, den |-> 1]

\* x >= p / q and x <= p / q for a float x and a decimal literal p / q
AtLeast(x, p, q) == x.num * q >= p * x.den
AtMost(x, p, q) == x.num * q <= p * x.den

\* int(x) of a quotient: truncation towards zero
IntOfQuotient(num, den) ==
    IF num >= 0 THEN num \div den ELSE 0 - ((0 - num) \div den)

\* the positions of xs that hold a value no earlier position holds
FirstPositions(xs) ==
    {i \in 1..Len(xs) : \A j \in 1..(i - 1) : ~PyEq(xs[j], xs[i])}

\* the positions of a set in increasing order
InOrder(S) ==
    [k \in 1..Cardinality(S) |->
        CHOOSE i \in S : Cardinality({j \in S : j < i}) = k - 1]

\* the number of positions of xs that hold v
Count(xs, v) == Cardinality({j \in 1..Len(xs) : PyEq(xs[j], v)})

\* the histogram of xs at the given first positions
CounterAt(xs, first) ==
    [k \in 1..Len(first) |-> [k |-> xs[first[k]], v |-> Count(xs, xs[first[k]])]]

\* dict(Counter(xs)): keys in the order of their first occurrence
Counter(xs) == CounterAt(xs, InOrder(FirstPositions(xs)))

\* sum(stats.values())
RECURSIVE SumValues(_, _)
SumValues(stats, i) ==
    IF i > Len(stats) THEN 0 ELSE stats[i].v + SumValues(stats, i + 1)

\* sum(stats.get(c, 0) for c in S)
RECURSIVE SumOver(_, _, _)
SumOver(stats, S, i) ==
    IF i > Len(stats) THEN 0
    ELSE (IF stats[i].k \in S THEN stats[i].v ELSE 0) + SumOver(stats, S, i + 1)

\* max(stats.values()) of a histogram that is not empty
MaxValue(stats) ==
    CHOOSE m \in {stats[i].v : i \in 1..Len(stats)} :
        \A i \in 1..Len(stats) : stats[i].v <= m

\* sum(xs) of numbers
RECURSIVE SumNumbers(_, _)
SumNumbers(xs, i) ==
    IF i > Len(xs) THEN 0 ELSE xs[i].n + SumNumbers(xs, i + 1)

\* sorted(xs)[k - 1] of numbers
KthSmallest(xs, k) ==
    CHOOSE v \in {xs[i].n : i \in 1..Len(xs)} :
        /\ Cardinality({i \in 1..Len(xs) : xs[i].n < v}) < k
        /\ Cardinality({i \in 1..Len(xs) : xs[i].n <= v}) >= k

\* int(mean(pings)) of a list that is not empty
IntMean(pings) == IntOfQuotient(SumNumbers(pings, 1), Len(pings))

\* int(median(pings)) of a list that is not empty
IntMedian(pings) ==
    LET n == Len(pings)
    IN  IF n % 2 = 1 THEN KthSmallest(pings, (n + 1) \div 2)
        ELSE IntOfQuotient(KthSmallest(pings, n \div 2)
                               + KthSmallest(pings, (n \div 2) + 1), 2)

\* [n.extra.get(k) for n in nodes]
Values(nodes, k) == [i \in 1..Len(nodes) |-> Get(nodes[i].extra, k)]

IsNotNone(v) == v # VNone
IsBool(v) == v.t = "bool"

\* _build_single_profile, last_seen: the stamp of the first node with the
\* greatest numeric last_seen_ts, or now_iso
LastSeenOf(nodes, ts, now_iso) ==
    LET stamped == {i \in 1..Len(nodes) : IsNumber(ts[i])}
    IN  IF stamped = {} THEN now_iso
        ELSE LET best == CHOOSE i \in stamped :
                            /\ \A j \in stamped : ts[j].n <= ts[i].n
                            /\ \A j \in stamped : j < i => ts[j].n < ts[i].n
                 e == nodes[best].extra
             IN  PyOr(PyOr(PyOr(Get(e, K_last_seen_iso), Get(e, K_last_seen)),
                           now_iso), now_iso)

\* a classification whose thresholds are exclusive
ClassifyExclusive(total_nodes, unique_ips, asn_stats) ==
    IF total_nodes <= 10 THEN "unknown"
    ELSE IF asn_stats # <<>>
            /\ ~AtMost(Float(MaxValue(asn_stats), total_nodes), 7, 10)
            /\ ~AtLeast(Float(unique_ips, total_nodes), 4, 10)
    THEN "first_party"
    ELSE IF Len(asn_stats) > 15
            /\ ~AtMost(Float(unique_ips, total_nodes), 75, 100)
    THEN "aggregator"
    ELSE "unknown"

\* Profiler._classify_source_type
_classify_source_type(total_nodes, unique_ips, asn_stats) ==
    IF total_nodes < 10 THEN "unknown"
    ELSE LET ip_diversity == Float(unique_ips, total_nodes)
             asn_concentration ==
                 IF asn_stats # <<>> THEN Float(MaxValue(asn_stats), total_nodes)
                 ELSE Float(0, 1)
             asn_diversity == Len(asn_stats)
         IN  IF AtLeast(asn_concentration, 7, 10) /\ AtMost(ip_diversity, 4, 10)
             THEN "first_party"
             ELSE IF asn_diversity >= 15 /\ AtLeast(ip_diversity, 75, 100)
             THEN "aggregator"
             ELSE "unknown"

\* 200 * math.log1p(n) in millionths, for n = 0, 1, ...: the term
\* 0.2 * log1p(total_nodes) of the score, in millionths of a thousandth
Log1pTable ==
    <<0, 138629436, 219722458, 277258872, 321887582, 358351894, 389182030,
      415888308, 439444915, 460517019, 479579055, 496981330, 512989871,
      527811466, 541610040, 554517744, 566642669, 578074352, 588887796,
      599146455, 608904488, 618208491, 627098843, 635610766, 643775165,
      651619308, 659167373, 666440902, 673459166, 680239476, 686797441>>

\* round(base, 3) in thousandths, for base = num / den thousandths plus
\* log millionths of a thousandth
RoundThousandths(num, den, log) ==
    LET q == IF num >= 0 THEN num \div den
             ELSE 0 - (((0 - num) + den - 1) \div den)
        r == num - q * den
        frac == ((r * 1000000) \div den) + (log % 1000000)
    IN  q + (log \div 1000000) + ((frac + 500000) \div 1000000)

\* 2.0 * eu_share - 3.0 * bad_share as a quotient in thousandths
GeoTerm(eu_share, bad_share) ==
    IF eu_share.den = bad_share.den
    THEN Float(2000 * eu_share.num - 3000 * bad_share.num, eu_share.den)
    ELSE Float(2000 * eu_share.num * bad_share.den
                   - 3000 * bad_share.num * eu_share.den,
               eu_share.den * bad_share.den)

\* _compute_score_and_tags, the score in thousandths
ScoreOf(geo, alive_ratio_val, total_nodes) ==
    RoundThousandths(geo.num * alive_ratio_val.den
                         + 1500 * alive_ratio_val.num * geo.den,
                     geo.den * alive_ratio_val.den,
                     Log1pTable[total_nodes + 1])

\* a tagging whose whitelist thresholds are exclusive
TagsExclusive(min_nodes, eu_share, bad_share, alive_ratio, total_nodes) ==
    LET alive_ratio_val == IF alive_ratio.t # "none" THEN alive_ratio
                           ELSE Float(0, 1)
    IN  (IF /\ ~AtMost(eu_share, 7, 10) /\ ~AtLeast(bad_share, 1, 10)
            /\ ~AtMost(alive_ratio_val, 5, 10) /\ total_nodes > min_nodes
         THEN <<"whitelist_candidate">> ELSE <<>>)
        \o (IF AtLeast(bad_share, 5, 10) \/ AtMost(alive_ratio_val, 1, 10)
            THEN <<"blacklist_candidate">> ELSE <<>>)

\* a tagging that takes a group for dead when half of it is
TagsDeadAtHalf(min_nodes, eu_share, bad_share, alive_ratio, total_nodes) ==
    LET alive_ratio_val == IF alive_ratio.t # "none" THEN alive_ratio
                           ELSE Float(0, 1)
    IN  (IF /\ AtLeast(eu_share, 7, 10) /\ AtMost(bad_share, 1, 10)
            /\ AtLeast(alive_ratio_val, 5, 10) /\ total_nodes >= min_nodes
         THEN <<"whitelist_candidate">> ELSE <<>>)
        \o (IF AtLeast(bad_share, 5, 10) \/ AtMost(alive_ratio_val, 5, 10)
            THEN <<"blacklist_candidate">> ELSE <<>>)

\* _compute_score_and_tags, the tags
TagsOf(min_nodes, eu_share, bad_share, alive_ratio, total_nodes) ==
    LET alive_ratio_val == IF alive_ratio.t # "none" THEN alive_ratio
                           ELSE Float(0, 1)
    IN  (IF /\ AtLeast(eu_share, 7, 10) /\ AtMost(bad_share, 1, 10)
            /\ AtLeast(alive_ratio_val, 5, 10) /\ total_nodes >= min_nodes
         THEN <<"whitelist_candidate">> ELSE <<>>)
        \o (IF AtLeast(bad_share, 5, 10) \/ AtMost(alive_ratio_val, 1, 10)
            THEN <<"blacklist_candidate">> ELSE <<>>)

\* a score that weighs the EU share as it weighs the alive ratio
ScoreEvenWeights(eu_share, bad_share, alive_ratio, total_nodes) ==
    ScoreOf(Float(1500 * eu_share.num - 3000 * bad_share.num, eu_share.den),
            IF alive_ratio.t # "none" THEN alive_ratio ELSE Float(0, 1),
            total_nodes)

\* _compute_score_and_tags, the score
Score(eu_share, bad_share, alive_ratio, total_nodes) ==
    ScoreOf(GeoTerm(eu_share, bad_share),
            IF alive_ratio.t # "none" THEN alive_ratio ELSE Float(0, 1),
            total_nodes)

\* Profiler._compute_score_and_tags
_compute_score_and_tags(min_nodes, eu_share, bad_share, alive_ratio, total_nodes) ==
    [score |-> Score(eu_share, bad_share, alive_ratio, total_nodes),
     tags |-> TagsOf(min_nodes, eu_share, bad_share, alive_ratio, total_nodes)]

\* _build_single_profile, from the score on
Profiled(entity_id, total_nodes, unique_ips, asn_stats, country_stats, eu_share, bad_country_share, pings, alive_ratio, last_seen, scored, source_type) ==
    [id |-> entity_id,
     total_nodes |-> total_nodes,
     unique_ips |-> unique_ips,
     asn_stats |-> asn_stats,
     country_stats |-> country_stats,
     eu_share |-> eu_share,
     bad_country_share |-> bad_country_share,
     avg_ping |-> IF pings # <<>> THEN VInt(IntMean(pings)) ELSE VNone,
     median_ping |-> IF pings # <<>> THEN VInt(IntMedian(pings)) ELSE VNone,
     alive_ratio |-> alive_ratio,
     last_seen |-> last_seen,
     score |-> scored.score,
     tags |-> scored.tags
                 \o (IF source_type = "first_party" THEN <<"first_party_like">>
                     ELSE IF source_type = "aggregator" THEN <<"aggregator_like">>
                     ELSE <<>>),
     source_type |-> source_type]

\* _build_single_profile, from the histograms on
Summarised(min_nodes, entity_id, nodes, unique_ips, asn_stats, country_stats, total_with_country, alive_flags, now_iso) ==
    Profiled(entity_id, Len(nodes), unique_ips, asn_stats, country_stats,
             Float(SumOver(country_stats, profiler_eu_countries, 1),
                   total_with_country),
             Float(SumOver(country_stats, bad_countries, 1), total_with_country),
             SelectSeq(Values(nodes, K_ping), IsNumber),
             IF alive_flags # <<>>
             THEN Float(Count(alive_flags, PyTrue), Len(alive_flags))
             ELSE NoFloat,
             LastSeenOf(nodes, Values(nodes, K_last_seen_ts), now_iso),
             _compute_score_and_tags(
                 min_nodes,
                 Float(SumOver(country_stats, profiler_eu_countries, 1),
                       total_with_country),
                 Float(SumOver(country_stats, bad_countries, 1),
                       total_with_country),
                 IF alive_flags # <<>>
                 THEN Float(Count(alive_flags, PyTrue), Len(alive_flags))
                 ELSE NoFloat,
                 Len(nodes)),
             _classify_source_type(Len(nodes), unique_ips, asn_stats))

\* a total that counts the codes of the histogram, not its nodes
TotalOfCodes(country_stats) ==
    IF Len(country_stats) # 0 THEN Len(country_stats) ELSE 1

\* sum(country_stats.values()) or 1
TotalWithCountry(country_stats) ==
    IF SumValues(country_stats, 1) # 0 THEN SumValues(country_stats, 1) ELSE 1

\* Profiler._build_single_profile
_build_single_profile(min_nodes, entity_id, nodes, now_iso) ==
    Summarised(min_nodes, entity_id, nodes,
               Cardinality(FirstPositions(SelectSeq(Values(nodes, K_ip), Truthy))),
               Counter(SelectSeq(Values(nodes, K_asn), IsNotNone)),
               Counter(SelectSeq(Values(nodes, K_country), Truthy)),
               TotalWithCountry(Counter(SelectSeq(Values(nodes, K_country), Truthy))),
               SelectSeq(Values(nodes, K_alive), IsBool),
               now_iso)

\* build_profiles, the key of the first grouping
SourceKey(n) == PyOr(GetOr(n.extra, K_source_name, S_unknown), S_unknown)

\* a second grouping that keys a node by whatever provider_id it carries
ProviderKeyIfPresent(n) ==
    PyOr(IF Has(n.extra, K_provider_id) THEN Get(n.extra, K_provider_id)
         ELSE GetOr(n.extra, K_source_name, S_unknown),
         S_unknown)

\* build_profiles, the key of the second grouping
ProviderKey(n) ==
    PyOr(PyOr(Get(n.extra, K_provider_id),
              GetOr(n.extra, K_source_name, S_unknown)),
         S_unknown)

S_json == <<".", "j", "s", "o", "n">>

\* the nodes of positions that hold the key of position p
GroupAt(nodes, keys, p) ==
    LET members == InOrder({i \in 1..Len(nodes) : PyEq(keys[i], keys[p])})
    IN  [k \in 1..Len(members) |-> nodes[members[k]]]

\* _build_grouped_profiles, given the key of every node and the positions
\* where a key first occurs: the profiles in the order of those positions,
\* each written to the file of its name
GroupedAt(min_nodes, nodes, keys, first, now_iso) ==
    [k \in 1..Len(first) |->
        [k |-> keys[first[k]],
         v |-> _build_single_profile(min_nodes, keys[first[k]],
                                     GroupAt(nodes, keys, first[k]), now_iso),
         file |-> PyStr(keys[first[k]]) \o S_json]]

\* a grouping that has a profile of the group "unknown" when it has no
\* node to group
GroupedWithUnknown(min_nodes, nodes, keys, now_iso) ==
    IF nodes = <<>>
    THEN <<[k |-> S_unknown,
            v |-> _build_single_profile(min_nodes, S_unknown, <<>>, now_iso),
            file |-> PyStr(S_unknown) \o S_json]>>
    ELSE GroupedAt(min_nodes, nodes, keys, InOrder(FirstPositions(keys)), now_iso)

\* Profiler._build_grouped_profiles
_build_grouped_profiles(min_nodes, nodes, keys, now_iso) ==
    GroupedAt(min_nodes, nodes, keys, InOrder(FirstPositions(keys)), now_iso)

\* Profiler.build_profiles
build_profiles(min_nodes, nodes, now_iso) ==
    [by_source |->
        _build_grouped_profiles(min_nodes, nodes,
            [i \in 1..Len(nodes) |-> SourceKey(nodes[i])], now_iso),
     by_provider |->
        _build_grouped_profiles(min_nodes, nodes,
            [i \in 1..Len(nodes) |-> ProviderKey(nodes[i])], now_iso)]

NoProfiles == [by_source |-> <<>>, by_provider |-> <<>>]
ProfileIdle ==
    pNodes = <<>> /\ pMinNodes = 0 /\ pNow = VNone /\ pProfiles = NoProfiles

-----------------------------------------------------------------------------
(* scripts/repacker.py *)

S_txt == <<".", "t", "x", "t">>

\* a format template is the sequence of its literal texts and replacement
\* fields
Text(s) == [field |-> "", text |-> s]
Field(name) == [field |-> name, text |-> <<>>]

\* the default of output.format_template
default_format_template ==
    <<Field("country"), Text(<<" ">>), Field("ping"),
      Text(<<"m", "s", " ", "A", "S">>), Field("asn"), Text(<<" ">>),
      Field("protocol")>>

\* template.format(country=country, ping=ping, asn=asn, protocol=protocol)
Format(template, country, ping, asn, protocol) ==
    Join([i \in 1..Len(template) |->
             CASE template[i].field = "country" -> PyStr(country)
               [] template[i].field = "ping" -> PyStr(ping)
               [] template[i].field = "asn" -> PyStr(asn)
               [] template[i].field = "protocol" -> PyStr(protocol)
               [] OTHER -> template[i].text],
         <<>>)

\* node.protocol or "unknown", as a str
ProtocolName(protocol) ==
    CASE protocol = "vless" -> VStr(<<"v", "l", "e", "s", "s">>)
      [] protocol = "vmess" -> VStr(<<"v", "m", "e", "s", "s">>)
      [] protocol = "ss" -> VStr(<<"s", "s">>)
      [] OTHER -> S_unknown

\* repack, the body of the loop up to the rebuilt uri
Repacked(template, node) ==
    [proto |-> ProtocolName(node.protocol),
     country |-> GetOr(node.extra, K_country, S_XX),
     uri |-> rebuild_uri(node,
                 VStr(Format(template,
                             GetOr(node.extra, K_country, S_XX),
                             GetOr(node.extra, K_ping, VInt(0)),
                             GetOr(node.extra, K_asn, VInt(0)),
                             ProtocolName(node.protocol))))]

\* the uris of the positions that hold the key of position p
UrisAt(uris, keys, p) ==
    LET members == InOrder({i \in 1..Len(keys) : PyEq(keys[i], keys[p])})
    IN  [k \in 1..Len(members) |-> uris[members[k]]]

\* a file of uris: "\n".join(uris) + "\n"
UriLines(uris) == Join(uris, <<"\n">>) \o <<"\n">>

\* repack, one grouping: the keys in the order of their first occurrence,
\* each with its uris and the file written for it
UriGroupsAt(uris, keys, first) ==
    [k \in 1..Len(first) |->
        [k |-> keys[first[k]],
         uris |-> UrisAt(uris, keys, first[k]),
         file |-> PyStr(keys[first[k]]) \o S_txt,
         text |-> UriLines(UrisAt(uris, keys, first[k]))]]

UriGroups(uris, keys) == UriGroupsAt(uris, keys, InOrder(FirstPositions(keys)))

\* repack, after the loop
Grouped(cfg, items) ==
    [made_dirs |-> TRUE,
     by_type |->
        IF cfg.split_by_type
        THEN UriGroups([i \in 1..Len(items) |-> items[i].uri],
                       [i \in 1..Len(items) |-> items[i].proto])
        ELSE <<>>,
     by_country |->
        IF cfg.split_by_country
        THEN UriGroups([i \in 1..Len(items) |-> items[i].uri],
                       [i \in 1..Len(items) |-> items[i].country])
        ELSE <<>>]

NoOutput == [made_dirs |-> FALSE, by_type |-> <<>>, by_country |-> <<>>]

\* Repacker.repack: the directories made, the two groupings, the files
repack(cfg, nodes) ==
    IF nodes = <<>> THEN NoOutput
    ELSE Grouped(cfg, [i \in 1..Len(nodes) |->
                          Repacked(cfg.format_template, nodes[i])])

NoRepackerConfig ==
    [format_template |-> <<>>, split_by_country |-> FALSE,
     split_by_type |-> FALSE]

RepackIdle == rNodes = <<>> /\ rConfig = NoRepackerConfig /\ rOut = NoOutput

-----------------------------------------------------------------------------
(* chunk_keys of build_eu_subscriptions_list.py and tg_eu_subs_poster.py   *)

\* a chunking that keeps only the parts of full size
ChunksOfFullSize(keys, per_chunk) ==
    [j \in 1..(Len(keys) \div per_chunk) |->
        SubSeq(keys, (j - 1) * per_chunk + 1, j * per_chunk)]

\* the loop of chunk_keys for per_chunk >= 1: the parts keys[i:i + per_chunk]
\* for i in range(0, len(keys), per_chunk), none of which is empty
Chunks(keys, per_chunk) ==
    [j \in 1..((Len(keys) + per_chunk - 1) \div per_chunk) |->
        SubSeq(keys, (j - 1) * per_chunk + 1,
               IF j * per_chunk < Len(keys) THEN j * per_chunk ELSE Len(keys))]

\* chunk_keys of the batch builder
chunk_keys(keys, per_chunk) == Chunks(keys, per_chunk)

\* random.shuffle(keys): the orders the list may be left in
Shuffles(keys) ==
    {[i \in 1..Len(keys) |-> keys[p[i]]] : p \in Permutations(1..Len(keys))}

\* no keys are being chunked
ChunkIdle ==
    /\ cKeys = <<>> /\ cPerChunk = 0 /\ cChunks = <<>>
    /\ cShuffled = <<>> /\ cShuffledChunks = <<>>

-----------------------------------------------------------------------------
(* The filter's inputs.  Node lists are drawn from two pools: one varies   *)
(* the identity fields (for deduplication), one varies the bag attributes  *)
(* the policy rules read.                                                  *)

MaxNodes == 3
MaxPolicyNodes == 1

\* all sequences over S of length at most n
SeqsUpTo(S, n) == UNION {[1..k -> S] : k \in 0..n}

S_h1 == VStr(<<"h", "1">>)
S_h2 == VStr(<<"h", "2">>)
S_u1 == VStr(<<"u", "1">>)
S_u2 == VStr(<<"u", "2">>)
S_p1 == VStr(<<"p", "1">>)
S_m1 == VStr(<<"m", "1">>)
S_m2 == VStr(<<"m", "2">>)
S_empty == VStr(<<>>)
C_DE == VStr(<<"D", "E">>)
C_RU == VStr(<<"R", "U">>)
C_US == VStr(<<"U", "S">>)

Item(k, v) == [k |-> k, v |-> v]

Vless(host, port, uuid, remark, extra) ==
    VPNNode("vless", host, port, uuid, VNone, VStr(remark), FALSE, VNone, extra)
Vmess(host, port, uuid, extra) ==
    VPNNode("vmess", host, port, uuid, VNone, S_empty, FALSE, VNone, extra)
Ss(host, port, password, method) ==
    VPNNode("ss", host, port, VNone, password, S_empty, FALSE, VNone,
            <<Item(K_method, method)>>)

IdentityPool ==
    { Vless(S_h1, 443, S_u1, <<"a">>, <<>>),
      Vless(S_h1, 443, S_u1, <<"b">>, <<Item(K_country, C_DE)>>),
      Vless(S_h1, 443, S_u2, <<>>, <<Item(K_country, C_RU)>>),
      Vless(S_h2, 443, S_u1, <<>>, <<>>),
      Vless(S_h1, 80, S_u1, <<>>, <<>>),
      Vmess(S_h1, 443, S_u1, <<>>),
      Vmess(S_h1, 443, S_empty, <<>>),
      Vmess(S_h1, 443, VNone, <<>>),
      Ss(S_h1, 443, S_p1, S_m1),
      Ss(S_h1, 443, S_p1, S_m2) }

PolicyBags ==
    << <<>>,
       <<Item(K_country, C_DE)>>,
       <<Item(K_country, C_RU)>>,
       <<Item(K_country, C_US)>>,
       <<Item(K_country, VNone)>>,
       <<Item(K_country, S_empty)>>,
       <<Item(K_asn, VInt(100))>>,
       <<Item(K_asn, VInt(200))>>,
       <<Item(K_asn, VNone)>>,
       <<Item(K_asn, VInt(0))>>,
       <<Item(K_alive, PyTrue)>>,
       <<Item(K_alive, PyFalse)>>,
       <<Item(K_alive, VNone)>>,
       <<Item(K_ping, VNone)>>,
       <<Item(K_ping, VInt(49))>>,
       <<Item(K_ping, VInt(50))>>,
       <<Item(K_ping, VInt(100))>>,
       <<Item(K_ping, VInt(200))>>,
       <<Item(K_ping, VInt(201))>>,
       <<Item(K_ping, VStr(<<"x">>))>>,
       <<Item(K_country, C_DE), Item(K_asn, VInt(200)),
         Item(K_alive, PyTrue), Item(K_ping, VInt(100))>>,
       <<Item(K_country, C_RU), Item(K_asn, VInt(100)),
         Item(K_alive, PyFalse), Item(K_ping, VInt(201))>> >>

\* one node per bag, each with an identity of its own
PolicyPool ==
    {Vless(S_h1, 1000 + i, S_u1, <<>>, PolicyBags[i]) : i \in 1..Len(PolicyBags)}

FilterConfigs ==
    [eu_only : BOOLEAN,
     exclude_countries : {{}, {C_RU, S_empty}},
     whitelist_countries : {{}, {C_DE}},
     asn_blacklist : {{}, {VInt(100), VInt(0)}},
     min_ping_ms : {VNone, VInt(50)},
     max_ping_ms : {VNone, VInt(200)}]

NoConfig ==
    [eu_only |-> FALSE, exclude_countries |-> {}, whitelist_countries |-> {},
     asn_blacklist |-> {}, min_ping_ms |-> VNone, max_ping_ms |-> VNone]

NoStats == [before |-> 0, dropped_dup |-> 0, dropped_filter |-> 0, after |-> 0]

FilterIdle ==
    /\ fNodes = <<>> /\ fConfig = NoConfig /\ fDeduped = <<>>
    /\ fFiltered = <<>> /\ fStats = NoStats
    /\ fFiltered2 = <<>> /\ fStats2 = NoStats

\* no pipeline has run
RunIdle ==
    /\ uRun = 0 /\ uLoaded = "" /\ uMade = {} /\ uFetched = {}
    /\ uFiles = {} /\ uNodes = <<>> /\ uGiven = <<>> /\ uStats = NoStats
    /\ uProfiles = NoProfiles /\ uOut = NoOutput /\ uLabels = <<>>
    /\ uKeys = <<>>

-----------------------------------------------------------------------------
(* The enricher's inputs: one node, enriched in up to MaxPasses passes,    *)
(* each pass with a configuration and lookup answers of its own.           *)

MaxPasses == 2

S_ipParsed == VStr(<<"9", ".", "9">>)
S_ipResolved == VStr(<<"1", ".", "1">>)
C_FR == VStr(<<"F", "R">>)
S_org == VStr(<<"o", "r", "g">>)

\* bags as parsing leaves them: empty, or with keys the descriptor carried
ParsedBags ==
    { <<>>,
      <<Item(K_ip, S_ipParsed)>>,
      <<Item(K_country, C_FR)>>,
      <<Item(K_ip, S_ipParsed), Item(K_country, C_FR), Item(K_asn, VInt(7)),
        Item(K_asn_name, S_org), Item(K_alive, PyTrue), Item(K_ping, VInt(5))>> }

\* the configurations an Enricher is built with, as its constructor
\* leaves them: every choice of the three sub-steps, outside CI and in it.
\* With GeoIP enabled at least one database is open; the cases with only
\* one of the two open are taken with DNS on and the probe off.
EnricherConfigs ==
    {EnricherInit(c, ci) :
        c \in {c \in [enable_dns : BOOLEAN, enable_geoip : BOOLEAN,
                      enable_alive : BOOLEAN, max_nodes_per_run : {0},
                      geo_country : BOOLEAN, geo_asn : BOOLEAN] :
                 /\ ~c.enable_geoip => (~c.geo_country /\ ~c.geo_asn)
                 /\ c.enable_geoip => (c.geo_country \/ c.geo_asn)
                 /\ (c.geo_country # c.geo_asn) => (c.enable_dns /\ ~c.enable_alive)},
        ci \in BOOLEAN}

Miss == [hit |-> FALSE, iso_code |-> VNone, number |-> VNone, organization |-> VNone]
CountryHit(c) == [Miss EXCEPT !.hit = TRUE, !.iso_code = c]
AsnHit(n, org) == [Miss EXCEPT !.hit = TRUE, !.number = n, !.organization = org]

\* what the resolver, the databases and the TCP connect may answer
Outcomes ==
    [dns : {VNone, S_ipResolved},
     country : {Miss, CountryHit(C_DE), CountryHit(VNone)},
     asn : {Miss, AsnHit(VInt(100), S_org)},
     ping : {-1, 105}]

\* the lookups _enrich_node makes for a node under cfg
AsksDns(cfg, node) == cfg.enable_dns /\ ~Has(node.extra, K_ip)
HasIpAfterDns(cfg, node, o) == Truthy(Get(DnsStep(cfg, node.extra, o.dns), K_ip))
AsksCountry(cfg, node, o) ==
    HasIpAfterDns(cfg, node, o) /\ cfg.enable_geoip /\ cfg.geo_country
AsksAsn(cfg, node, o) ==
    HasIpAfterDns(cfg, node, o) /\ cfg.enable_geoip /\ cfg.geo_asn
AsksPing(cfg, node, o) == HasIpAfterDns(cfg, node, o) /\ cfg.enable_alive

\* o answers exactly the lookups made (a lookup not made has no answer:
\* its field is the failure value)
AnswersFor(cfg, node, o) ==
    /\ ~AsksDns(cfg, node) => o.dns = VNone
    /\ ~AsksCountry(cfg, node, o) => o.country = Miss
    /\ ~AsksAsn(cfg, node, o) => o.asn = Miss
    /\ ~AsksPing(cfg, node, o) => o.ping = -1

NoEnricherConfig ==
    [enable_dns |-> FALSE, enable_geoip |-> FALSE, enable_alive |-> FALSE,
     max_nodes_per_run |-> 0, geo_country |-> FALSE, geo_asn |-> FALSE]

EnrichIdle ==
    /\ eNodes = <<>> /\ eConfig = NoEnricherConfig /\ ePasses = 0
    /\ eBefore = <<>> /\ eOutcomes = <<>>
    /\ eVisited = <<>> /\ eProbes = <<>>

EnrichInit ==
    /\ pc = "enrich"
    /\ \E bag \in ParsedBags :
          eNodes = <<Vless(S_h1, 443, S_u1, <<>>, bag)>>
    /\ eConfig = NoEnricherConfig
    /\ ePasses = 0
    /\ eBefore = <<>>
    /\ eOutcomes = <<>>
    /\ eVisited = <<>>
    /\ eProbes = <<>>
    /\ FilterIdle /\ LineIdle /\ TextIdle
    /\ ProfileIdle /\ RepackIdle /\ ChunkIdle /\ RunIdle

\* one call of enrich_all by an Enricher built from cfg
EnrichAll ==
    /\ pc = "enrich"
    /\ ePasses < MaxPasses
    /\ \E cfg \in EnricherConfigs, outs \in [1..Len(eNodes) -> Outcomes] :
          /\ \A i \in 1..Len(eNodes) : AnswersFor(cfg, eNodes[i], outs[i])
          /\ eConfig' = cfg
          /\ eOutcomes' = outs
          /\ eNodes' = enrich_all(cfg, eNodes, outs)
          /\ eVisited' = Visited(cfg, eNodes)
          /\ eProbes' = Probes(cfg, eNodes, outs)
    /\ eBefore' = eNodes
    /\ ePasses' = ePasses + 1
    /\ UNCHANGED <<fvars, lvars, tvars, pc, pvars, rvars, cvars, uvars>>

EnrichNext == EnrichAll

SpecEnrich == EnrichInit /\ [][EnrichNext]_vars

-----------------------------------------------------------------------------
(* The enricher's inputs, a list: up to MaxEnrichNodes nodes enriched in   *)
(* one call of enrich_all, under a cap of up to MaxCap nodes.  The call is *)
(* made against one state of the network: the resolver, the two databases  *)
(* and the TCP connect answer alike for every node that asks.              *)

MaxEnrichNodes == 2
MaxCap == 2

\* nodes as parsing leaves them, at two hosts
EnrichPool ==
    {Vless(S_h1, 443, S_u1, <<>>, bag) : bag \in ParsedBags}
        \cup {Vless(S_h2, 80, S_u2, <<>>, <<>>),
              Vmess(S_h2, 80, S_u2, <<Item(K_ip, S_empty)>>)}

\* the configurations of EnricherConfigs under every cap up to MaxCap
CappedConfigs ==
    {EnricherInit([c EXCEPT !.max_nodes_per_run = k], ci) :
        c \in EnricherConfigs, k \in 0..MaxCap, ci \in BOOLEAN}

\* the answers a node gets from the network state o: those of the lookups
\* _enrich_node makes for it
Answered(cfg, node, o) ==
    LET dns == IF AsksDns(cfg, node) THEN o.dns ELSE VNone
        asked == [o EXCEPT !.dns = dns]
    IN  [dns |-> dns,
         country |-> IF AsksCountry(cfg, node, asked) THEN o.country ELSE Miss,
         asn |-> IF AsksAsn(cfg, node, asked) THEN o.asn ELSE Miss,
         ping |-> IF AsksPing(cfg, node, asked) THEN o.ping ELSE -1]

NoAnswer == [dns |-> VNone, country |-> Miss, asn |-> Miss, ping |-> -1]

EnrichListInit ==
    /\ pc = "enrich_list"
    /\ eNodes \in SeqsUpTo(EnrichPool, MaxEnrichNodes)
    /\ eConfig = NoEnricherConfig
    /\ ePasses = 0
    /\ eBefore = <<>>
    /\ eOutcomes = <<>>
    /\ eVisited = <<>>
    /\ eProbes = <<>>
    /\ FilterIdle /\ LineIdle /\ TextIdle
    /\ ProfileIdle /\ RepackIdle /\ ChunkIdle /\ RunIdle

\* the one call of enrich_all of a pipeline run
EnrichList ==
    /\ pc = "enrich_list"
    /\ \E cfg \in CappedConfigs, o \in Outcomes :
          LET outs == [i \in 1..Len(eNodes) |->
                         IF i <= EnrichCount(cfg, eNodes)
                         THEN Answered(cfg, eNodes[i], o) ELSE NoAnswer]
          IN  /\ eConfig' = cfg
              /\ eOutcomes' = outs
              /\ eNodes' = enrich_all(cfg, eNodes, outs)
              /\ eVisited' = Visited(cfg, eNodes)
              /\ eProbes' = Probes(cfg, eNodes, outs)
    /\ eBefore' = eNodes
    /\ ePasses' = 1
    /\ pc' = "enriched"
    /\ UNCHANGED <<fvars, lvars, tvars, pvars, rvars, cvars, uvars>>

EnrichListNext == EnrichList

SpecEnrichList == EnrichListInit /\ [][EnrichListNext]_vars

-----------------------------------------------------------------------------
(* The profiler's inputs: lists of up to MaxProfileNodes nodes.  The nodes *)
(* of a list take their sources, countries, addresses, ASNs and liveness   *)
(* from plans that repeat along the list, so that a list of ten or twenty  *)
(* nodes meets the thresholds of the profiler exactly.                     *)

MaxProfileNodes == 20

\* the mark of a key that a bag does not have
Absent == [t |-> "absent", s |-> <<>>, n |-> 0]
IsPresent(e) == e.v # Absent
BagOf(entries) == SelectSeq(entries, IsPresent)

\* the element of a repeating pattern at position i
Cycled(pattern, i) == pattern[((i - 1) % Len(pattern)) + 1]

S_src1 == VStr(<<"s", "r", "c", "1">>)
S_src2 == VStr(<<"s", "r", "c", "2">>)
S_prov == VStr(<<"p", "r", "o", "v">>)
S_now == VStr(<<"n", "o", "w">>)

Grouping(source, provider) == [source |-> source, provider |-> provider]

\* source_name and provider_id as parse_text leaves them (the provider is
\* the source unless the descriptor carried one), and a node that did not
\* come through parse_text: one source; ten nodes of one source, then ten
\* of another; sources and providers in turn
GroupPlans ==
    { <<Grouping(S_src1, S_src1)>>,
      [i \in 1..20 |-> IF i <= 10 THEN Grouping(S_src1, S_src1)
                       ELSE Grouping(S_src2, S_src2)],
      <<Grouping(S_src1, S_prov), Grouping(S_src2, S_prov),
        Grouping(S_src1, S_empty), Grouping(Absent, Absent)>> }

CountryPlans ==
    { <<Absent>>,
      <<C_US, C_US, C_RU, C_DE, C_DE, C_DE, C_DE, C_DE, C_DE, C_DE>>,
      <<C_RU, C_DE>> }

AlivePlans ==
    { <<Absent>>,
      <<PyTrue, PyFalse>>,
      <<PyTrue, PyFalse, PyFalse, PyFalse, PyFalse, PyFalse, PyFalse, PyFalse,
        PyFalse, PyFalse>> }

\* the number of distinct addresses a list may hold: none (the bags have
\* an empty ip or no ip), at most 4, at most 15
IpPlans == {0, 4, 15}

AsnPlans == {"none", "top7", "cycle15"}

PlannedIp(k, i) ==
    IF k = 0 THEN (IF i % 2 = 1 THEN S_empty ELSE Absent)
    ELSE VStr(<<"i", "p">> \o NatStr((i - 1) % k))

\* no ASN (a failed lookup's None, or no key); seven nodes of every ten in
\* one ASN and the others each in one of its own; fifteen ASNs in turn
PlannedAsn(plan, i) ==
    CASE plan = "none" -> (IF i % 2 = 1 THEN VNone ELSE Absent)
      [] plan = "top7" -> (IF (i - 1) % 10 < 7 THEN VInt(100) ELSE VInt(100 + i))
      [] OTHER -> VInt(100 + ((i - 1) % 15))

\* the ping the enricher leaves with alive
PlannedPing(alive, i) ==
    IF alive = PyTrue THEN VInt(40 + i)
    ELSE IF alive = PyFalse THEN VNone ELSE Absent

ProfilePlans ==
    [group : GroupPlans, country : CountryPlans, alive : AlivePlans,
     ip : IpPlans, asn : AsnPlans]

PlannedNode(plan, i) ==
    Vless(S_h1, 443, S_u1, <<>>,
          BagOf(<<Item(K_source_name, Cycled(plan.group, i).source),
                  Item(K_provider_id, Cycled(plan.group, i).provider),
                  Item(K_ip, PlannedIp(plan.ip, i)),
                  Item(K_country, Cycled(plan.country, i)),
                  Item(K_asn, PlannedAsn(plan.asn, i)),
                  Item(K_alive, Cycled(plan.alive, i)),
                  Item(K_ping, PlannedPing(Cycled(plan.alive, i), i))>>))

PlannedNodes(plan, n) == [i \in 1..n |-> PlannedNode(plan, i)]

\* quality_metrics.min_nodes_per_source: the default and a larger setting
MinNodesSettings == {5, 10}

ProfileInit ==
    /\ pc = "profile"
    /\ \E plan \in ProfilePlans, n \in 0..MaxProfileNodes :
          pNodes = PlannedNodes(plan, n)
    /\ pMinNodes \in MinNodesSettings
    /\ pNow = S_now
    /\ pProfiles = NoProfiles
    /\ FilterIdle /\ EnrichIdle /\ LineIdle /\ TextIdle /\ RepackIdle /\ ChunkIdle /\ RunIdle

\* one call of build_profiles
BuildProfiles ==
    /\ pc = "profile"
    /\ pProfiles' = build_profiles(pMinNodes, pNodes, pNow)
    /\ pc' = "profiled"
    /\ UNCHANGED <<pNodes, pMinNodes, pNow, fvars, evars, lvars, tvars, rvars, cvars, uvars>>

ProfileNext == BuildProfiles

SpecProfile == ProfileInit /\ [][ProfileNext]_vars

-----------------------------------------------------------------------------
(* The repacker's inputs: lists of up to MaxRepackNodes nodes as parsing,  *)
(* enrichment and filtering leave them.                                    *)

MaxRepackNodes == 2

RepackPool ==
    { Vless(S_h1, 443, S_u1, <<"a">>, <<>>),
      Vless(S_h1, 443, S_u1, <<>>,
            <<Item(K_ip, S_ipResolved), Item(K_country, C_DE),
              Item(K_asn, VInt(100)), Item(K_alive, PyTrue),
              Item(K_ping, VInt(50))>>),
      Vless(S_h2, 80, S_u2, <<>>,
            <<Item(K_ip, S_ipResolved), Item(K_country, S_XX),
              Item(K_asn, VNone)>>),
      Vless(S_h2, 80, S_u2, <<>>,
            <<Item(K_ip, S_ipResolved), Item(K_country, VNone),
              Item(K_asn, VInt(100))>>),
      Vmess(S_h1, 443, S_u1, <<Item(K_country, C_DE)>>),
      Vmess(S_h1, 443, S_u1, <<Item(K_country, S_empty)>>),
      Ss(S_h1, 443, S_p1, S_m1) }

RepackerConfigs ==
    [format_template : {default_format_template, <<Field("country")>>},
     split_by_country : BOOLEAN, split_by_type : BOOLEAN]

RepackInit ==
    /\ pc = "repack"
    /\ rNodes \in SeqsUpTo(RepackPool, MaxRepackNodes)
    /\ rConfig \in RepackerConfigs
    /\ rOut = NoOutput
    /\ FilterIdle /\ EnrichIdle /\ LineIdle /\ TextIdle /\ ProfileIdle /\ ChunkIdle /\ RunIdle

\* one call of repack
Repack ==
    /\ pc = "repack"
    /\ rOut' = repack(rConfig, rNodes)
    /\ pc' = "repacked"
    /\ UNCHANGED <<rNodes, rConfig, fvars, evars, lvars, tvars, pvars, cvars, uvars>>

RepackNext == Repack

SpecRepack == RepackInit /\ [][RepackNext]_vars

-----------------------------------------------------------------------------
(* The keys of the batch builder and of the poster: up to MaxKeys          *)
(* descriptors, some of them equal, in batches of up to MaxPerChunk.       *)

MaxKeys == 4
MaxPerChunk == 3

KeyPool == {<<"s", "s", ":", "/", "/", "a">>, <<"s", "s", ":", "/", "/", "b">>, <<"s", "s", ":", "/", "/", "c">>}

ChunkInit ==
    /\ pc = "chunk"
    /\ cKeys \in SeqsUpTo(KeyPool, MaxKeys)
    /\ cPerChunk \in 1..MaxPerChunk
    /\ cChunks = <<>> /\ cShuffled = <<>> /\ cShuffledChunks = <<>>
    /\ FilterIdle /\ EnrichIdle /\ LineIdle /\ TextIdle
    /\ ProfileIdle /\ RepackIdle /\ RunIdle

\* the batch builder's call of chunk_keys
ChunkKeys ==
    /\ pc = "chunk"
    /\ cChunks' = chunk_keys(cKeys, cPerChunk)
    /\ pc' = "chunked"
    /\ UNCHANGED <<cKeys, cPerChunk, cShuffled, cShuffledChunks, fvars, evars, lvars, tvars, pvars, rvars, uvars>>

\* the poster's call of chunk_keys on the same keys: the list is shuffled
\* in place, then cut
ChunkKeysShuffled ==
    /\ pc = "chunked"
    /\ \E shuffled \in Shuffles(cKeys) :
          /\ cShuffled' = shuffled
          /\ cShuffledChunks' = Chunks(shuffled, cPerChunk)
    /\ pc' = "chunked_shuffled"
    /\ UNCHANGED <<cKeys, cPerChunk, cChunks, fvars, evars, lvars, tvars, pvars, rvars, uvars>>

ChunkNext == ChunkKeys \/ ChunkKeysShuffled

SpecChunk == ChunkInit /\ [][ChunkNext]_vars

-----------------------------------------------------------------------------
(* pipeline.py: the runs of VPNAggregatorPipeline, one after the other in  *)
(* the same working directory, each followed by the batch builder.         *)

\* a constructor that builds the components before it reads the
\* configuration
MadeBeforeLoading(loaded) ==
    {"data", "sources_meta/profiles", "sources_meta/providers", "sources_meta"}

\* __init__: the directories the constructors of Enricher, Profiler and
\* Reporter make; none when _load_config has ended the process
MadeByInit(loaded) ==
    IF loaded = "ok"
    THEN {"data", "sources_meta/profiles", "sources_meta/providers", "sources_meta"}
    ELSE {}

\* _ensure_dirs
EnsuredDirs ==
    {"sources_raw", "sources_clean", "sources_meta/profiles",
     "sources_meta/providers", "out/by_type", "out/by_country"}

\* Path.write_text: the files after name was written in dir by run
Written(files, dir, name, text, run) ==
    {f \in files : ~(f.dir = dir /\ f.name = name)}
        \cup {[dir |-> dir, name |-> name, text |-> text, run |-> run]}

RECURSIVE WrittenAll(_, _, _, _, _)
WrittenAll(files, dir, groups, run, k) ==
    IF k > Len(groups) THEN files
    ELSE WrittenAll(Written(files, dir, groups[k].file, groups[k].text, run),
                    dir, groups, run, k + 1)

\* _build_grouped_profiles, the files written: one per group, here without
\* the JSON text of the profile
ProfileFiles(profiles) ==
    [k \in 1..Len(profiles) |-> [file |-> profiles[k].file, text |-> <<>>]]

\* a rebuild that puts the node's fields into the node's own bag
ExtraAfterRebuildInPlace(node, remark) ==
    IF node.protocol = "vmess"
    THEN Put(Put(Put(Put(node.extra, K_add, node.host),
                     K_port, VStr(DecStr(node.port))),
                 K_id, node.uuid),
             K_ps, remark)
    ELSE node.extra

\* rebuild_uri, the bag of the node after the call: vless and ss read it,
\* vmess updates a copy of it
ExtraAfterRebuild(node, remark) == node.extra

\* repack, the label rendered for a node
Label(template, node) ==
    VStr(Format(template,
                GetOr(node.extra, K_country, S_XX),
                GetOr(node.extra, K_ping, VInt(0)),
                GetOr(node.extra, K_asn, VInt(0)),
                ProtocolName(node.protocol)))

\* repack, the list it was given after the call
NodesAfterRepack(template, nodes) ==
    [i \in 1..Len(nodes) |->
        [nodes[i] EXCEPT
            !.extra = ExtraAfterRebuild(nodes[i], Label(template, nodes[i]))]]

\* the countries the batch builder reads
EU_COUNTRIES ==
    <<"DE", "NL", "FR", "FI", "SE", "PL", "CZ", "AT", "BE", "DK",
      "IE", "ES", "IT", "PT", "NO", "CH", "LU", "EE", "LV", "LT">>

Chars(code) ==
    CASE code = "DE" -> <<"D", "E">> [] code = "NL" -> <<"N", "L">>
      [] code = "FR" -> <<"F", "R">> [] code = "FI" -> <<"F", "I">>
      [] code = "SE" -> <<"S", "E">> [] code = "PL" -> <<"P", "L">>
      [] code = "CZ" -> <<"C", "Z">> [] code = "AT" -> <<"A", "T">>
      [] code = "BE" -> <<"B", "E">> [] code = "DK" -> <<"D", "K">>
      [] code = "IE" -> <<"I", "E">> [] code = "ES" -> <<"E", "S">>
      [] code = "IT" -> <<"I", "T">> [] code = "PT" -> <<"P", "T">>
      [] code = "NO" -> <<"N", "O">> [] code = "CH" -> <<"C", "H">>
      [] code = "LU" -> <<"L", "U">> [] code = "EE" -> <<"E", "E">>
      [] code = "LV" -> <<"L", "V">> [] code = "LT" -> <<"L", "T">>

\* "://" in line
HasScheme(line) ==
    \E i \in 1..(Len(line) - 2) : SubSeq(line, i, i + 2) = <<":", "/", "/">>

\* load_eu_keys, the lines kept of one file, each with the run that wrote it
KeysOfFile(f) ==
    LET lines == splitlines(f.text)
        stripped == [i \in 1..Len(lines) |-> Strip(lines[i])]
        kept == SelectSeq(stripped, LAMBDA line : line # <<>> /\ HasScheme(line))
    IN  [i \in 1..Len(kept) |-> [key |-> kept[i], run |-> f.run]]

\* load_eu_keys: the keys of the files of the EU countries that exist
RECURSIVE load_eu_keys(_, _)
load_eu_keys(files, k) ==
    IF k > Len(EU_COUNTRIES) THEN <<>>
    ELSE LET found == {f \in files : /\ f.dir = "out/by_country"
                                     /\ f.name = Chars(EU_COUNTRIES[k]) \o S_txt}
         IN  (IF found = {} THEN <<>> ELSE KeysOfFile(CHOOSE f \in found : TRUE))
                 \o load_eu_keys(files, k + 1)

-----------------------------------------------------------------------------
(* The runs: up to MaxRuns of them.  The configuration names one source;   *)
(* each run draws what loading the configuration gives, what the source    *)
(* answers and what the lookups of the enricher answer.                    *)

MaxRuns == 2

\* what _load_config may end in: a configuration, or the process ended
\* because the file is missing, is not YAML or cannot be read
LoadOutcomes == {"ok", "not_found", "yaml_error", "os_error"}

\* the configuration loaded: one enabled source src1, no filter rules, the
\* defaults of quality_metrics and output
LoadedConfig ==
    [source |-> <<"s", "r", "c", "1">>,
     filters |-> NoConfig,
     min_nodes_per_source |-> 5,
     output |-> [format_template |-> default_format_template,
                 split_by_country |-> TRUE, split_by_type |-> TRUE]]

\* Enricher(debug=...): the defaults of EnricherConfig, both databases in
\* the data directory
PipelineEnricher ==
    [enable_dns |-> TRUE, enable_geoip |-> TRUE, enable_alive |-> FALSE,
     max_nodes_per_run |-> 0, geo_country |-> TRUE, geo_asn |-> TRUE]

\* vless://u1@h1:443
TextOneVless ==
    <<"v", "l", "e", "s", "s", ":", "/", "/", "u", "1", "@", "h", "1", ":", "4", "4", "3", "\n">>

\* vmess:// of {"add":"h2","port":443,"id":"u2","alive":false}, then
\* vless://u1@h1:443
TextDeadAndVless ==
    <<"v", "m", "e", "s", "s", ":", "/", "/", "e", "y", "J", "h", "Z", "G", "Q", "i", "O", "i", "J", "o", "M", "i", "I", "s", "I", "n", "B", "v", "c", "n", "Q", "i", "O", "j", "Q", "0", "M", "y", "w", "i", "a", "W", "Q", "i", "O", "i", "J", "1", "M", "i", "I", "s", "I", "m", "F", "s", "a", "X", "Z", "l", "I", "j", "p", "m", "Y", "W", "x", "z", "Z", "X", "0", "=", "\n", "v", "l", "e", "s", "s", ":", "/", "/", "u", "1", "@", "h", "1", ":", "4", "4", "3", "\n">>

\* vmess:// of {"add":"h2","port":443,"id":"u2","alive":false}, then
\* vmess:// of {"add":"h2","port":443,"id":"u3","alive":true}
TextDeadAndLive ==
    <<"v", "m", "e", "s", "s", ":", "/", "/", "e", "y", "J", "h", "Z", "G", "Q", "i", "O", "i", "J", "o", "M", "i", "I", "s", "I", "n", "B", "v", "c", "n", "Q", "i", "O", "j", "Q", "0", "M", "y", "w", "i", "a", "W", "Q", "i", "O", "i", "J", "1", "M", "i", "I", "s", "I", "m", "F", "s", "a", "X", "Z", "l", "I", "j", "p", "m", "Y", "W", "x", "z", "Z", "X", "0", "=", "\n", "v", "m", "e", "s", "s", ":", "/", "/", "e", "y", "J", "h", "Z", "G", "Q", "i", "O", "i", "J", "o", "M", "i", "I", "s", "I", "n", "B", "v", "c", "n", "Q", "i", "O", "j", "Q", "0", "M", "y", "w", "i", "a", "W", "Q", "i", "O", "i", "J", "1", "M", "y", "I", "s", "I", "m", "F", "s", "a", "X", "Z", "l", "I", "j", "p", "0", "c", "n", "V", "l", "f", "Q", "=", "=", "\n">>

\* what the source may answer; FetchFailed stands for an exception of the
\* request, a bad status and an HTML page
FetchFailed == <<"!">>
SourceTexts == {<<>>, TextOneVless, TextDeadAndVless, TextDeadAndLive}

\* what the resolver and the databases may answer in a run: no address, or
\* an address that the country database does not know, knows without a
\* country code, or knows as DE, and then the ASN database may know it too
RunOutcomes ==
    {o \in Outcomes :
        /\ o.ping = -1
        /\ o.asn.hit => (o.country.hit /\ o.country.iso_code # VNone)
        /\ o.dns = VNone => ~o.country.hit}

RunInit ==
    /\ pc = "start"
    /\ uRun = 1 /\ uLoaded = "" /\ uMade = {} /\ uFetched = {}
    /\ uFiles = {} /\ uNodes = <<>> /\ uGiven = <<>> /\ uStats = NoStats
    /\ uProfiles = NoProfiles /\ uOut = NoOutput /\ uLabels = <<>>
    /\ uKeys = <<>>
    /\ FilterIdle /\ EnrichIdle /\ LineIdle /\ TextIdle
    /\ ProfileIdle /\ RepackIdle /\ ChunkIdle

\* VPNAggregatorPipeline.__init__
Construct ==
    /\ pc = "start"
    /\ \E loaded \in LoadOutcomes :
          /\ uLoaded' = loaded
          /\ uMade' = MadeByInit(loaded)
          /\ pc' = IF loaded = "ok" THEN "constructed" ELSE "failed"
    /\ UNCHANGED <<uRun, uFetched, uFiles, uNodes, uGiven, uStats, uProfiles, uOut, uLabels, uKeys, fvars, evars, lvars, tvars, pvars, rvars, cvars>>

\* run, up to _ensure_dirs
EnsureDirs ==
    /\ pc = "constructed"
    /\ uMade' = uMade \cup EnsuredDirs
    /\ pc' = "ingest"
    /\ UNCHANGED <<uRun, uLoaded, uFetched, uFiles, uNodes, uGiven, uStats, uProfiles, uOut, uLabels, uKeys, fvars, evars, lvars, tvars, pvars, rvars, cvars>>

\* _step1_ingest
Step1Ingest ==
    /\ pc = "ingest"
    /\ uFetched' = {LoadedConfig.source}
    /\ uMade' = uMade \cup {"sources_raw"}
    /\ \E answer \in SourceTexts \cup {FetchFailed} :
          uFiles' = IF answer = FetchFailed THEN uFiles
                    ELSE Written(uFiles, "sources_raw",
                                 LoadedConfig.source \o S_txt, answer, uRun)
    /\ pc' = "parse"
    /\ UNCHANGED <<uRun, uLoaded, uNodes, uGiven, uStats, uProfiles, uOut, uLabels, uKeys, fvars, evars, lvars, tvars, pvars, rvars, cvars>>

\* _step2_parse: the one file sources_raw may hold is that of the source
Step2Parse ==
    /\ pc = "parse"
    /\ LET raw == {f \in uFiles : f.dir = "sources_raw"}
       IN  uNodes' = IF raw = {} THEN <<>>
                     ELSE parse_text((CHOOSE f \in raw : TRUE).text,
                                     LoadedConfig.source)
    /\ pc' = "enrich"
    /\ UNCHANGED <<uRun, uLoaded, uMade, uFetched, uFiles, uGiven, uStats, uProfiles, uOut, uLabels, uKeys, fvars, evars, lvars, tvars, pvars, rvars, cvars>>

\* _step3_enrich
Step3Enrich ==
    /\ pc = "enrich"
    /\ IF uNodes = <<>> THEN UNCHANGED uNodes
       ELSE \E o \in RunOutcomes :
               uNodes' = enrich_all(PipelineEnricher, uNodes,
                             [i \in 1..Len(uNodes) |->
                                 Answered(PipelineEnricher, uNodes[i], o)])
    /\ pc' = "filter"
    /\ UNCHANGED <<uRun, uLoaded, uMade, uFetched, uFiles, uGiven, uStats, uProfiles, uOut, uLabels, uKeys, fvars, evars, lvars, tvars, pvars, rvars, cvars>>

\* _step4_filter
Step4Filter ==
    /\ pc = "filter"
    /\ uNodes' = apply(LoadedConfig.filters, uNodes).filtered
    /\ uStats' = apply(LoadedConfig.filters, uNodes).stats
    /\ uGiven' = uNodes
    /\ pc' = "profile"
    /\ UNCHANGED <<uRun, uLoaded, uMade, uFetched, uFiles, uProfiles, uOut, uLabels, uKeys, fvars, evars, lvars, tvars, pvars, rvars, cvars>>

\* _step5_profile
Step5Profile ==
    /\ pc = "profile"
    /\ LET profiles == build_profiles(LoadedConfig.min_nodes_per_source,
                                      uNodes, S_now)
       IN  /\ uProfiles' = profiles
           /\ uFiles' = WrittenAll(
                            WrittenAll(uFiles, "sources_meta/profiles",
                                       ProfileFiles(profiles.by_source), uRun, 1),
                            "sources_meta/providers",
                            ProfileFiles(profiles.by_provider), uRun, 1)
    /\ uGiven' = uNodes
    /\ pc' = "repack"
    /\ UNCHANGED <<uRun, uLoaded, uMade, uFetched, uNodes, uStats, uOut, uLabels, uKeys, fvars, evars, lvars, tvars, pvars, rvars, cvars>>

\* _step6_repack
Step6Repack ==
    /\ pc = "repack"
    /\ LET out == repack(LoadedConfig.output, uNodes)
       IN  /\ uOut' = out
           /\ uFiles' = WrittenAll(
                            WrittenAll(uFiles, "out/by_type", out.by_type, uRun, 1),
                            "out/by_country", out.by_country, uRun, 1)
           /\ uMade' = IF out.made_dirs
                       THEN uMade \cup {"out/by_type", "out/by_country"}
                       ELSE uMade
    /\ uLabels' = [i \in 1..Len(uNodes) |->
                      Label(LoadedConfig.output.format_template, uNodes[i])]
    /\ uNodes' = NodesAfterRepack(LoadedConfig.output.format_template, uNodes)
    /\ uGiven' = NodesAfterRepack(LoadedConfig.output.format_template, uNodes)
    /\ pc' = "report"
    /\ UNCHANGED <<uRun, uLoaded, uFetched, uStats, uProfiles, uKeys, fvars, evars, lvars, tvars, pvars, rvars, cvars>>

\* _step7_report
Step7Report ==
    /\ pc = "report"
    /\ uFiles' = Written(uFiles, "sources_meta",
                         <<"p", "i", "p", "e", "l", "i", "n", "e", "_", "r", "e", "p", "o", "r", "t", ".", "m", "d">>,
                         <<>>, uRun)
    /\ pc' = "done"
    /\ UNCHANGED <<uRun, uLoaded, uMade, uFetched, uNodes, uGiven, uStats, uProfiles, uOut, uLabels, uKeys, fvars, evars, lvars, tvars, pvars, rvars, cvars>>

\* the batch builder after the run: load_eu_keys
LoadEuKeys ==
    /\ pc = "done"
    /\ uKeys' = load_eu_keys(uFiles, 1)
    /\ pc' = "loaded"
    /\ UNCHANGED <<uRun, uLoaded, uMade, uFetched, uFiles, uNodes, uGiven, uStats, uProfiles, uOut, uLabels, fvars, evars, lvars, tvars, pvars, rvars, cvars>>

\* main, once more: a new process in the directory the last left
NextRun ==
    /\ pc \in {"loaded", "failed"}
    /\ uRun < MaxRuns
    /\ uRun' = uRun + 1
    /\ uLoaded' = "" /\ uMade' = {} /\ uFetched' = {}
    /\ uNodes' = <<>> /\ uGiven' = <<>> /\ uStats' = NoStats
    /\ uProfiles' = NoProfiles /\ uOut' = NoOutput /\ uLabels' = <<>>
    /\ uKeys' = <<>>
    /\ pc' = "start"
    /\ UNCHANGED <<uFiles, fvars, evars, lvars, tvars, pvars, rvars, cvars>>

RunNext ==
    \/ Construct \/ EnsureDirs \/ Step1Ingest \/ Step2Parse \/ Step3Enrich
    \/ Step4Filter \/ Step5Profile \/ Step6Repack \/ Step7Report
    \/ LoadEuKeys \/ NextRun

SpecRun == RunInit /\ [][RunNext]_vars

-----------------------------------------------------------------------------
(* The parser's inputs: lines of the three formats, well-formed and not,  *)
(* and lines of no format, each after up to MaxLead whitespace characters.*)

MaxLead == 1

VlessIds == {<<"u">>, <<>>, <<"u", "#", "x">>}
Hosts == {<<"h">>, <<>>}
Ports == {<<"1">>, <<"0">>, <<"9", "9", "9", "9", "9">>, <<"x">>, <<>>}
Queries ==
    {<<>>, <<"?", "k", "=", "v">>, <<"?", "h", "o", "s", "t", "=", "a", "%", "2", "6", "b">>, <<"?", "a", "=", "1", "&", "a", "=", "2", "&", "b", "=">>, <<"?", "u", "u", "i", "d", "=", "z", "&", "k", "=", "v">>,
     <<"?", "s", "e", "c", "u", "r", "i", "t", "y", "=", "t", "l", "s", "&", "s", "n", "i", "=", "s">>, <<"/", "p", "?", "k", "=", "v">>, <<"?", "k", "=", "a", "+", "b">>}
Remarks == {<<>>, <<"#", "r">>, <<"#", "a", "%", "2", "3", "b">>, <<"#">>, <<"#", " ", "r", " ">>}

VlessLines ==
    {P_vless \o c \o <<"@">> \o h \o <<":">> \o p \o f :
        c \in VlessIds, h \in Hosts, p \in Ports, f \in {<<>>, <<"#", "r">>}}
    \cup {P_vless \o <<"u", "@", "h", ":", "4", "4", "3">> \o q \o f : q \in Queries, f \in Remarks}
    \cup {P_vless, P_vless \o <<"u">>, P_vless \o <<"u", "@", "h">>}

\* the JSON texts of vmess payloads
VmessJson ==
    {<<"{", "\"", "a", "d", "d", "\"", ":", " ", "\"", "h", "\"", ",", " ", "\"", "p", "o", "r", "t", "\"", ":", " ", "4", "4", "3", ",", " ", "\"", "i", "d", "\"", ":", " ", "\"", "u", "\"", ",", " ", "\"", "p", "s", "\"", ":", " ", "\"", "r", "\"", "}">>,
     <<"{", "\"", "a", "d", "d", "\"", ":", "\"", "h", "\"", ",", "\"", "p", "o", "r", "t", "\"", ":", "\"", "4", "4", "3", "\"", ",", "\"", "i", "d", "\"", ":", "\"", "u", "\"", "}">>,
     <<"{", "}">>,
     <<"{", "\"", "a", "d", "d", "\"", ":", "\"", "h", "\"", ",", "\"", "p", "o", "r", "t", "\"", ":", "0", ",", "\"", "i", "d", "\"", ":", "\"", "u", "\"", ",", "\"", "p", "s", "\"", ":", "\"", "\"", "}">>,
     <<"{", "\"", "a", "d", "d", "\"", ":", "\"", "h", "\"", ",", "\"", "p", "o", "r", "t", "\"", ":", "\"", "x", "\"", ",", "\"", "i", "d", "\"", ":", "\"", "u", "\"", "}">>,
     <<"{", "\"", "a", "d", "d", "\"", ":", "\"", "h", "\"", ",", "\"", "p", "o", "r", "t", "\"", ":", "n", "u", "l", "l", ",", "\"", "i", "d", "\"", ":", "\"", "u", "\"", "}">>,
     <<"{", "\"", "a", "d", "d", "\"", ":", "\"", "h", "\"", ",", "\"", "p", "o", "r", "t", "\"", ":", "7", "0", "0", "0", "0", ",", "\"", "i", "d", "\"", ":", "\"", "u", "\"", ",", "\"", "n", "e", "t", "\"", ":", "\"", "w", "s", "\"", ",", "\"", "t", "l", "s", "\"", ":", "\"", "t", "l", "s", "\"", ",", "\"", "s", "n", "i", "\"", ":", "\"", "s", "\"", ",", "\"", "v", "\"", ":", "2", "}">>,
     <<"{", "\"", "p", "o", "r", "t", "\"", ":", "1", ",", "\"", "i", "d", "\"", ":", "\"", "u", "\"", "}">>,
     <<"{", "\"", "a", "d", "d", "\"", ":", "\"", "h", "\"", ",", "\"", "p", "o", "r", "t", "\"", ":", "1", ",", "\"", "i", "d", "\"", ":", "\"", "u", "\"", ",", "\"", "p", "s", "\"", ":", "\"", "a", "#", "b", "\"", "}">>,
     <<"{", "\"", "a", "d", "d", "\"", ":", "\"", "h", "\"", ",", "\"", "p", "o", "r", "t", "\"", ":", "t", "r", "u", "e", "}">>,
     <<"\"", "s", "\"">>,
     <<"{", "\"", "a", "d", "d", "\"", ":", "\"", "h", "\"">>}

VmessLines ==
    {P_vmess \o B64EncodeText(j) : j \in VmessJson}
    \cup {P_vmess \o raw : raw \in {<<"a", "b", "c">>, <<"!", "!", "!">>, <<>>}}

SsCreds ==
    {B64EncodeText(<<"m", ":", "p">>), <<"m", ":", "p">>, <<"m", "p">>, B64EncodeText(<<"m", "p">>), <<>>}
SsAddrs ==
    {<<"h", ":", "1">>, <<"h", ":", "0">>, <<"h", ":", "-", "5">>, <<":", "1">>, <<"h">>, <<"h", ":", "x">>, <<"h", "#", "x", ":", "1">>,
     <<"h", ":", " ", "7">>}
SsRemarks == {<<>>, <<"#", "r">>, <<"#", "a", "%", "2", "3", "b">>}

SsLines ==
    {P_ss \o c \o <<"@">> \o a \o f :
        c \in SsCreds, a \in SsAddrs, f \in SsRemarks}
    \cup {P_ss, P_ss \o <<"m", ":", "p">>}

OtherLines ==
    {<<>>, <<"h", "t", "t", "p", ":", "/", "/", "h", ":", "1">>, <<"v", "l", "e", "s", ":", "/", "/", "u", "@", "h", ":", "1">>, <<"x", "v", "l", "e", "s", "s", ":", "/", "/", "u", "@", "h", ":", "1">>,
     <<"V", "L", "E", "S", "S", ":", "/", "/", "u", "@", "h", ":", "1">>, <<"s", "s", ":", "/", "m", ":", "p", "@", "h", ":", "1">>, <<"u", "@", "h", ":", "1">>}

Leads == SeqsUpTo({" ", "\t"}, MaxLead)

Lines ==
    {lead \o b : lead \in Leads,
                 b \in VlessLines \cup VmessLines \cup SsLines \cup OtherLines}

-----------------------------------------------------------------------------
(* ConfigParser.parse on a line, rebuild_uri on the node, parse on the    *)
(* rebuilt uri                                                            *)

LineInit ==
    /\ pc = "line"
    /\ lLine \in Lines
    /\ lNode = None /\ lUri = <<>> /\ lNode2 = None
    /\ FilterIdle /\ EnrichIdle /\ TextIdle
    /\ ProfileIdle /\ RepackIdle /\ ChunkIdle /\ RunIdle

Parse ==
    /\ pc = "line"
    /\ lNode' = parse(lLine)
    /\ pc' = "parsed"
    /\ UNCHANGED <<lLine, lUri, lNode2, fvars, evars, tvars, pvars, rvars, cvars, uvars>>

\* rebuild_uri with the node's own remark, left to the default or passed
Rebuild ==
    /\ pc = "parsed"
    /\ lNode.kind = "node"
    /\ \E new_remark \in {VNone, lNode.node.remark} :
          lUri' = rebuild_uri(lNode.node, new_remark)
    /\ pc' = "rebuilt"
    /\ UNCHANGED <<lLine, lNode, lNode2, fvars, evars, tvars, pvars, rvars, cvars, uvars>>

Reparse ==
    /\ pc = "rebuilt"
    /\ lNode2' = parse(lUri)
    /\ pc' = "reparsed"
    /\ UNCHANGED <<lLine, lNode, lUri, fvars, evars, tvars, pvars, rvars, cvars, uvars>>

LineNext == Parse \/ Rebuild \/ Reparse

SpecLine == LineInit /\ [][LineNext]_vars

-----------------------------------------------------------------------------
(* ConfigParser.parse_text on a text of up to MaxLines lines *)

MaxLines == 2

\* lines of a subscription text: blank, of no format, of each format, and
\* descriptors that carry a source_name or provider_id of their own
TextLinePool ==
    {<<>>, <<" ", " ">>, <<"j", "u", "n", "k">>, <<"v", "l", "e", "s", "s", ":", "/", "/", "u", "@", "h", ":", "1">>,
     <<" ", "v", "l", "e", "s", "s", ":", "/", "/", "u", "@", "h", ":", "1", "?", "s", "o", "u", "r", "c", "e", "_", "n", "a", "m", "e", "=", "o", "w", "n", "#", "r", " ">>,
     <<"s", "s", ":", "/", "/", "m", ":", "p", "@", "h", ":", "2", "#", "r">>, <<"s", "s", ":", "/", "/", "m", ":", "p", "@", "h">>,
     P_vmess \o B64EncodeText(<<"{", "\"", "a", "d", "d", "\"", ":", "\"", "h", "\"", ",", "\"", "p", "o", "r", "t", "\"", ":", "3", ",", "\"", "i", "d", "\"", ":", "\"", "u", "\"", ",", "\"", "p", "r", "o", "v", "i", "d", "e", "r", "_", "i", "d", "\"", ":", "\"", "o", "w", "n", "\"", "}">>)}

LineSeparators == {<<"\n">>, <<"\r", "\n">>, <<"\r">>}

Sources == {<<"u", "n", "k", "n", "o", "w", "n">>, <<"s", "u", "b", "1">>}

TextInit ==
    /\ pc = "text"
    /\ tLines \in SeqsUpTo(TextLinePool, MaxLines)
    /\ \E sep \in LineSeparators, end \in BOOLEAN :
          tText = Join(tLines, sep) \o (IF end THEN sep ELSE <<>>)
    /\ tSource \in Sources
    /\ tNodes = <<>>
    /\ FilterIdle /\ EnrichIdle /\ LineIdle
    /\ ProfileIdle /\ RepackIdle /\ ChunkIdle /\ RunIdle

ParseText ==
    /\ pc = "text"
    /\ tNodes' = parse_text(tText, tSource)
    /\ pc' = "parsed text"
    /\ UNCHANGED <<tText, tSource, tLines, fvars, evars, lvars, pvars, rvars, cvars, uvars>>

TextNext == ParseText

SpecText == TextInit /\ [][TextNext]_vars

-----------------------------------------------------------------------------
(* NodeFilter.apply, called once and then again on its own result *)

FilterInit ==
    /\ pc = "filter"
    /\ \/ /\ fNodes \in SeqsUpTo(IdentityPool, MaxNodes)
          /\ fConfig \in {c \in FilterConfigs :
                            /\ ~c.eu_only
                            /\ c.whitelist_countries = {}
                            /\ c.asn_blacklist = {}
                            /\ c.min_ping_ms = VNone
                            /\ c.max_ping_ms = VNone}
       \/ /\ fNodes \in SeqsUpTo(PolicyPool, MaxPolicyNodes)
          /\ fConfig \in FilterConfigs
    /\ fDeduped = <<>>
    /\ fFiltered = <<>> /\ fStats = NoStats
    /\ fFiltered2 = <<>> /\ fStats2 = NoStats
    /\ EnrichIdle /\ LineIdle /\ TextIdle
    /\ ProfileIdle /\ RepackIdle /\ ChunkIdle /\ RunIdle

Apply ==
    /\ pc = "filter"
    /\ LET r == apply(fConfig, fNodes)
       IN  /\ fDeduped' = r.deduped
           /\ fFiltered' = r.filtered
           /\ fStats' = r.stats
    /\ pc' = "filtered"
    /\ UNCHANGED <<fNodes, fConfig, fFiltered2, fStats2, evars, lvars, tvars, pvars, rvars, cvars, uvars>>

ApplyAgain ==
    /\ pc = "filtered"
    /\ LET r == apply(fConfig, fFiltered)
       IN  /\ fFiltered2' = r.filtered
           /\ fStats2' = r.stats
    /\ pc' = "filtered again"
    /\ UNCHANGED <<fNodes, fConfig, fDeduped, fFiltered, fStats, evars, lvars, tvars, pvars, rvars, cvars, uvars>>

FilterNext == Apply \/ ApplyAgain

SpecFilter == FilterInit /\ [][FilterNext]_vars

-----------------------------------------------------------------------------
(* Claims about the filter *)

\* the subsequence of ns made of each node that no earlier node is Same as
KeepFirst(ns, Same(_, _)) ==
    LET F[i \in 0..Len(ns)] ==
            IF i = 0 THEN <<>>
            ELSE IF \E j \in 1..(i - 1) : Same(ns[j], ns[i])
                 THEN F[i - 1]
                 ELSE Append(F[i - 1], ns[i])
    IN  F[Len(ns)]

\* the credential as the data model words it: the identity token, or the
\* secret together with its method
FullCredential(n) ==
    <<n.uuid, n.password,
      IF n.password # VNone THEN Get(n.extra, K_method) ELSE VNone>>

SameFullIdentity(a, b) ==
    /\ a.protocol = b.protocol
    /\ a.host = b.host
    /\ a.port = b.port
    /\ FullCredential(a) = FullCredential(b)

\* the credential the key holds: the first non-empty of the identity token
\* and the secret, else the empty string
FirstNonEmptyCredential(n) ==
    IF Truthy(n.uuid) THEN n.uuid
    ELSE IF Truthy(n.password) THEN n.password
    ELSE VStr(<<>>)

SameKeyIdentity(a, b) ==
    /\ a.protocol = b.protocol
    /\ a.host = b.host
    /\ a.port = b.port
    /\ FirstNonEmptyCredential(a) = FirstNonEmptyCredential(b)

\* C2, as stated: _dedup returns the first occurrence of each distinct
\* (protocol, host, port, credential), in input order, the credential of a
\* credential-pair node being its secret together with its method.
C2_DedupByFullCredential ==
    pc # "filter" => fDeduped = KeepFirst(fNodes, SameFullIdentity)

\* C2, amended: _dedup returns the first occurrence of each distinct
\* (protocol, host, port, credential), in input order, the credential being
\* the first non-empty of the identity token and the secret (the method is
\* not part of it).
C2_DedupByKeyCredential ==
    pc # "filter" => fDeduped = KeepFirst(fNodes, SameKeyIdentity)

\* C2's case: two credential-pair nodes that differ only in the method, the
\* second of which _dedup dropped
C2_Witness ==
    /\ pc = "filtered"
    /\ Len(fNodes) = 3
    /\ Len(fDeduped) = 2
    /\ fNodes[1].protocol = "ss" /\ fNodes[2].protocol = "ss"
    /\ fNodes[1].password = fNodes[2].password
    /\ Get(fNodes[1].extra, K_method) # Get(fNodes[2].extra, K_method)
    /\ fDeduped[1] = fNodes[1] /\ fDeduped[2] = fNodes[3]

\* C3: the statistics of apply: before is the length of the input, after
\* the length of the result, dropped_dup the nodes deduplication removed,
\* dropped_filter the nodes the policy removed; they add up and none is
\* negative.
C3_StatsAddUp ==
    pc # "filter" =>
        /\ fStats.before = Len(fNodes)
        /\ fStats.after = Len(fFiltered)
        /\ fStats.dropped_dup = fStats.before - Len(fDeduped)
        /\ fStats.dropped_filter = Len(fDeduped) - fStats.after
        /\ fStats.before = fStats.dropped_dup + fStats.dropped_filter + fStats.after
        /\ fStats.before >= 0 /\ fStats.dropped_dup >= 0
        /\ fStats.dropped_filter >= 0 /\ fStats.after >= 0

\* C3's case: a call that dropped a duplicate, dropped a node by policy and
\* kept a node
C3_Witness ==
    /\ pc = "filtered"
    /\ fStats.dropped_dup = 1 /\ fStats.dropped_filter = 1 /\ fStats.after = 1

\* C4: apply on the result of apply returns the same nodes in the same
\* order and drops no duplicate.
C4_ApplyIdempotent ==
    pc = "filtered again" =>
        /\ fFiltered2 = fFiltered
        /\ fStats2.dropped_dup = 0

\* C4's case: a second call after a first call that dropped duplicates and
\* kept more than one node
C4_Witness ==
    /\ pc = "filtered again"
    /\ fStats.dropped_dup > 0
    /\ Len(fFiltered) = 2
    /\ fStats2.after = 2

\* the rules of the policy filter, an attribute counting as present when
\* the bag has its key
RejectedIfPresent(cfg, n) ==
    LET e == n.extra
        ping == Get(e, K_ping)
    IN  \/ Has(e, K_country) /\ PyIn(Get(e, K_country), cfg.exclude_countries)
        \/ /\ cfg.whitelist_countries # {}
           /\ Has(e, K_country)
           /\ ~PyIn(Get(e, K_country), cfg.whitelist_countries)
        \/ /\ cfg.eu_only
           /\ Has(e, K_country)
           /\ ~PyIn(Get(e, K_country), eu_countries)
        \/ Has(e, K_asn) /\ PyIn(Get(e, K_asn), cfg.asn_blacklist)
        \/ Has(e, K_alive) /\ Get(e, K_alive) = PyFalse
        \/ /\ Has(e, K_ping) /\ IsNumber(ping)
           /\ \/ cfg.min_ping_ms # VNone /\ ping.n < cfg.min_ping_ms.n
              \/ cfg.max_ping_ms # VNone /\ ping.n > cfg.max_ping_ms.n

\* a value that is there: not null, not the empty string, not zero
NonEmpty(e, k) == Has(e, k) /\ Get(e, k) \notin {VNone, VStr(<<>>), VInt(0)}

\* the rules of the policy filter, country and asn counting as present
\* when the bag holds a non-empty value for them
RejectedIfNonEmpty(cfg, n) ==
    LET e == n.extra
        ping == Get(e, K_ping)
    IN  \/ NonEmpty(e, K_country) /\ PyIn(Get(e, K_country), cfg.exclude_countries)
        \/ /\ cfg.whitelist_countries # {}
           /\ NonEmpty(e, K_country)
           /\ ~PyIn(Get(e, K_country), cfg.whitelist_countries)
        \/ /\ cfg.eu_only
           /\ NonEmpty(e, K_country)
           /\ ~PyIn(Get(e, K_country), eu_countries)
        \/ NonEmpty(e, K_asn) /\ PyIn(Get(e, K_asn), cfg.asn_blacklist)
        \/ Has(e, K_alive) /\ Get(e, K_alive) = PyFalse
        \/ /\ Has(e, K_ping) /\ IsNumber(ping)
           /\ \/ cfg.min_ping_ms # VNone /\ ping.n < cfg.min_ping_ms.n
              \/ cfg.max_ping_ms # VNone /\ ping.n > cfg.max_ping_ms.n

\* C5, as stated: a deduplicated node is kept iff no rule rejects it, a
\* rule reading an attribute whenever the bag has it.
C5_KeptIffNoRuleOnPresent ==
    pc # "filter" =>
        fFiltered = SelectSeq(fDeduped, LAMBDA n : ~RejectedIfPresent(fConfig, n))

\* C5, amended: a deduplicated node is kept iff no rule rejects it, the
\* country and asn rules reading only a non-empty value (a null or empty
\* country and a null or zero asn pass like an absent one); a ping equal to
\* the minimum or the maximum is kept.
C5_KeptIffNoRuleOnNonEmpty ==
    pc # "filter" =>
        fFiltered = SelectSeq(fDeduped, LAMBDA n : ~RejectedIfNonEmpty(fConfig, n))

\* C5's case: a node whose country is null kept under euOnly and a
\* whitelist
C5_Witness ==
    /\ pc = "filtered"
    /\ fConfig.eu_only /\ fConfig.whitelist_countries # {}
    /\ Len(fDeduped) = 1
    /\ Has(fDeduped[1].extra, K_country)
    /\ Get(fDeduped[1].extra, K_country) = VNone
    /\ fFiltered = fDeduped


-----------------------------------------------------------------------------
(* C1: what an enrichment pass does to bag keys that are already present *)

EnrichmentKeys == {K_ip, K_country, K_asn, K_asn_name, K_alive, K_ping}

\* key k has the same value in bag b as in bag a
Kept(a, b, k) == Has(b, k) /\ PyEq(Get(b, k), Get(a, k))

\* C1 as stated: after any enrichment pass, every key among ip, country,
\* asn, asn_name, alive, ping that the bag had before the pass has the
\* same value after it.
C1_SetIfAbsent ==
    ePasses > 0 =>
        \A i \in 1..Len(eNodes) : \A k \in EnrichmentKeys :
            Has(eBefore[i].extra, k) =>
                Kept(eBefore[i].extra, eNodes[i].extra, k)

\* C1 as amended: after any enrichment pass every key the bag had is still
\* there; ip has the value it had; country differs only when the country
\* lookup was made and hit, and is then the code found; asn and asn_name
\* differ only when the ASN lookup was made and hit, and are then the
\* number and organization found; alive and ping differ only when the
\* liveness probe was made.
C1_OverwrittenOnlyByAnswers ==
    ePasses > 0 =>
        \A i \in 1..Len(eNodes) :
            LET b == eBefore[i].extra
                a == eNodes[i].extra
                o == eOutcomes[i]
                n == eBefore[i]
            IN  /\ \A k \in EnrichmentKeys : Has(b, k) => Has(a, k)
                /\ Has(b, K_ip) => Kept(b, a, K_ip)
                /\ (Has(b, K_country) /\ ~Kept(b, a, K_country)) =>
                       /\ AsksCountry(eConfig, n, o) /\ o.country.hit
                       /\ PyEq(Get(a, K_country), o.country.iso_code)
                /\ (Has(b, K_asn) /\ ~Kept(b, a, K_asn)) =>
                       /\ AsksAsn(eConfig, n, o) /\ o.asn.hit
                       /\ PyEq(Get(a, K_asn), o.asn.number)
                /\ (Has(b, K_asn_name) /\ ~Kept(b, a, K_asn_name)) =>
                       /\ AsksAsn(eConfig, n, o) /\ o.asn.hit
                       /\ PyEq(Get(a, K_asn_name), o.asn.organization)
                /\ \A k \in {K_alive, K_ping} :
                       (Has(b, k) /\ ~Kept(b, a, k)) => AsksPing(eConfig, n, o)

\* C1 witness: a second pass over a bag whose country a database found in
\* the first pass; this time the country lookup is made and misses, the
\* resolver is enabled, and country and ip are as they were
C1_Witness ==
    /\ ePasses = 2
    /\ Len(eNodes) = 1
    /\ PyEq(Get(eBefore[1].extra, K_country), C_DE)
    /\ Has(eBefore[1].extra, K_ip)
    /\ eConfig.enable_dns
    /\ AsksCountry(eConfig, eBefore[1], eOutcomes[1])
    /\ ~eOutcomes[1].country.hit
    /\ PyEq(Get(eNodes[1].extra, K_country), C_DE)
    /\ PyEq(Get(eNodes[1].extra, K_ip), Get(eBefore[1].extra, K_ip))

-----------------------------------------------------------------------------
(* C6..C9: ConfigParser.parse and the round trip through rebuild_uri *)

Schemes == {"vless", "vmess", "ss"}

PrefixOf(protocol) ==
    CASE protocol = "vless" -> P_vless
      [] protocol = "vmess" -> P_vmess
      [] OTHER -> P_ss

\* the result r of parse is a node or None; a node only for a text that
\* starts with exactly one of the three prefixes, with the protocol of that
\* prefix; None for a text with none of the prefixes
ByPrefix(text, r) ==
    /\ r.kind \in {"node", "none"}
    /\ r.kind = "node" =>
          /\ Cardinality({p \in Schemes : StartsWith(text, PrefixOf(p))}) = 1
          /\ r.node.protocol \in Schemes
          /\ StartsWith(text, PrefixOf(r.node.protocol))
    /\ (\A p \in Schemes : ~StartsWith(text, PrefixOf(p))) => r.kind = "none"

\* C6 as stated: parse never raises; it returns a node only for a line
\* that starts with exactly one of the three prefixes, and the node's
\* protocol is the one of that prefix; a line with none of the prefixes is
\* rejected.
C6_NodeOnlyForPrefixedLine ==
    /\ pc \in {"parsed", "rebuilt", "reparsed"} => ByPrefix(lLine, lNode)
    /\ pc = "reparsed" => ByPrefix(lUri, lNode2)

\* C6 as amended: parse never raises; it returns a node only for a line
\* that, once the whitespace around it is stripped, starts with exactly one
\* of the three prefixes, and the node's protocol is the one of that
\* prefix; a line that, stripped, has none of the prefixes is rejected.
C6_NodeOnlyForStrippedPrefix ==
    /\ pc \in {"parsed", "rebuilt", "reparsed"} => ByPrefix(Strip(lLine), lNode)
    /\ pc = "reparsed" => ByPrefix(Strip(lUri), lNode2)

\* C6 witness: a line with whitespace before the ss prefix has been parsed
\* into an ss node
C6_Witness ==
    /\ pc = "parsed"
    /\ lLine # Strip(lLine)
    /\ ~StartsWith(lLine, P_ss)
    /\ StartsWith(Strip(lLine), P_ss)
    /\ lNode.kind = "node"
    /\ lNode.node.protocol = "ss"

\* the credential of a node: the identity token, the secret, and for a
\* credential pair the method
Credential(n) == <<n.uuid, n.password, Get(n.extra, K_method)>>

\* C7: for every node parse accepts, rebuild_uri with the node's own label
\* gives a string that parse accepts, and the node it gives has the same
\* protocol, host, port and credential.
C7_RoundTripIdentity ==
    pc = "reparsed" =>
        /\ lNode2.kind = "node"
        /\ lNode2.node.protocol = lNode.node.protocol
        /\ lNode2.node.host = lNode.node.host
        /\ lNode2.node.port = lNode.node.port
        /\ Credential(lNode2.node) = Credential(lNode.node)

\* the bag keys parsing preserved: the query parameters of a vless node,
\* the JSON keys of a vmess node other than the ones the node's fields are
\* read from, the method of an ss node
PreservedKeys(n) ==
    CASE n.protocol = "vless" -> Keys(n.extra)
      [] n.protocol = "vmess" ->
            Keys(n.extra) \ {K_add, K_port, K_id, K_ps, K_tls, K_sni}
      [] OTHER -> {K_method}

\* C8: when the rebuilt string is parsed into a node, every preserved bag
\* key of the original node is in its bag with the same value, and its bag
\* has no key the original node's bag had not.
C8_RoundTripBag ==
    (pc = "reparsed" /\ lNode2.kind = "node") =>
        /\ \A k \in PreservedKeys(lNode.node) :
              /\ Has(lNode2.node.extra, k)
              /\ Get(lNode2.node.extra, k) = Get(lNode.node.extra, k)
        /\ Keys(lNode2.node.extra) \subseteq Keys(lNode.node.extra)

\* C9: every node parse returns has a port in 1..65535 and a non-empty
\* host.
C9_PortAndHostValid ==
    (pc \in {"parsed", "rebuilt", "reparsed"} /\ lNode.kind = "node") =>
        /\ lNode.node.port \in 1..65535
        /\ lNode.node.host.t = "str"
        /\ lNode.node.host.s # <<>>

-----------------------------------------------------------------------------
(* C10: ConfigParser.parse_text *)

\* C10: parse_text returns, in line order, the nodes of the lines parse
\* accepts, each with source_name and provider_id in its bag: the
\* descriptor's own value when it carried the key, the source label
\* otherwise; the rest of the node is as parse gave it.
C10_ParseTextStampsAccepted ==
    pc = "parsed text" =>
        LET accepted == SelectSeq(tLines, LAMBDA l : parse(l).kind = "node")
        IN  /\ Len(tNodes) = Len(accepted)
            /\ \A i \in 1..Len(accepted) :
                  LET p == parse(accepted[i]).node
                      r == tNodes[i]
                  IN  /\ [r EXCEPT !.extra = <<>>] = [p EXCEPT !.extra = <<>>]
                      /\ Keys(r.extra) =
                            Keys(p.extra) \cup {K_source_name, K_provider_id}
                      /\ \A k \in Keys(p.extra) :
                            Get(r.extra, k) = Get(p.extra, k)
                      /\ \A k \in {K_source_name, K_provider_id} :
                            ~Has(p.extra, k) => Get(r.extra, k) = VStr(tSource)

\* C10 witness: a text of two lines, one rejected, one a descriptor that
\* carries a source_name of its own and no provider_id: its node is the
\* only one returned, with its own source_name and the label as provider_id
C10_Witness ==
    /\ pc = "parsed text"
    /\ Len(tLines) = 2
    /\ \E i \in 1..2 : tLines[i] # <<>> /\ parse(tLines[i]).kind = "none"
    /\ Len(tNodes) = 1
    /\ Get(tNodes[1].extra, K_source_name) # VStr(tSource)
    /\ Get(tNodes[1].extra, K_provider_id) = VStr(tSource)

-----------------------------------------------------------------------------
(* C11..C13: one call of enrich_all over a list *)

Min(a, b) == IF a < b THEN a ELSE b

\* the identity of a node: what enrichment must not touch
SameIdentity(a, b) ==
    /\ a.protocol = b.protocol /\ a.host = b.host /\ a.port = b.port
    /\ a.uuid = b.uuid /\ a.password = b.password

Reached(i) == \E j \in 1..Len(eVisited) : eVisited[j] = i

\* the ASN lookup was made for node i and the reader raised
AsnLookupFailed(i) ==
    Reached(i) /\ AsksAsn(eConfig, eBefore[i], eOutcomes[i]) /\ ~eOutcomes[i].asn.hit

\* the country lookup was made for node i and the reader raised
CountryLookupFailed(i) ==
    Reached(i) /\ AsksCountry(eConfig, eBefore[i], eOutcomes[i]) /\ ~eOutcomes[i].country.hit

\* the resolver was asked for node i and returned no address
DnsFailed(i) ==
    Reached(i) /\ AsksDns(eConfig, eBefore[i]) /\ ~Truthy(eOutcomes[i].dns)

\* what C12 says of every sub-step but the ASN lookup: the list keeps its
\* nodes, their order and their identities; a failed DNS resolution leaves
\* ip absent; a failed country lookup on a bag without country leaves it
\* absent or equal to the unknown mark
C12_Retained ==
    /\ Len(eNodes) = Len(eBefore)
    /\ \A i \in 1..Len(eNodes) :
          /\ SameIdentity(eNodes[i], eBefore[i])
          /\ DnsFailed(i) => ~Has(eNodes[i].extra, K_ip)
          /\ (CountryLookupFailed(i) /\ ~Has(eBefore[i].extra, K_country)) =>
                 \/ ~Has(eNodes[i].extra, K_country)
                 \/ PyEq(Get(eNodes[i].extra, K_country), S_XX)

ProbeAddress(n) ==
    IF Has(n.extra, K_ip) THEN Get(n.extra, K_ip) ELSE n.host

\* C13: when the liveness probe is enabled, every node the loop reaches
\* is probed exactly once, at its ip if it has one and otherwise at its
\* host, and at its port; afterwards it has alive = True with a numeric
\* ping or alive = False with ping = None.
C13_EveryNodeProbedOnce ==
    (pc = "enriched" /\ eConfig.enable_alive) =>
        \A j \in 1..Len(eVisited) :
            LET i == eVisited[j]
                a == eNodes[i].extra
            IN  /\ eProbes[i] = <<[host |-> ProbeAddress(eNodes[i]),
                                   port |-> eNodes[i].port]>>
                /\ Has(a, K_alive) /\ Has(a, K_ping)
                /\ \/ Get(a, K_alive) = PyTrue /\ IsNumber(Get(a, K_ping))
                   \/ Get(a, K_alive) = PyFalse /\ Get(a, K_ping) = VNone

-----------------------------------------------------------------------------
(* C14..C19: the profiles of one call of build_profiles *)

\* the source a node names: its source_name if it has one with a value,
\* otherwise the word unknown
NamedSource(n) ==
    IF Truthy(Get(n.extra, K_source_name)) THEN Get(n.extra, K_source_name)
    ELSE S_unknown

\* the provider a node names: its provider_id if it has one with a value,
\* otherwise the source it names
NamedProvider(n) ==
    IF Truthy(Get(n.extra, K_provider_id)) THEN Get(n.extra, K_provider_id)
    ELSE NamedSource(n)

\* the positions of the nodes of the group that an entry of by_source, or
\* of by_provider, stands for
SourceMembers(key) ==
    {i \in 1..Len(pNodes) : PyEq(NamedSource(pNodes[i]), key)}
ProviderMembers(key) ==
    {i \in 1..Len(pNodes) : PyEq(NamedProvider(pNodes[i]), key)}

\* every profile of the call with the positions of its group's nodes
GroupsProfiled ==
    [k \in 1..Len(pProfiles.by_source) |->
        [profile |-> pProfiles.by_source[k].v,
         members |-> SourceMembers(pProfiles.by_source[k].k)]]
    \o [k \in 1..Len(pProfiles.by_provider) |->
        [profile |-> pProfiles.by_provider[k].v,
         members |-> ProviderMembers(pProfiles.by_provider[k].k)]]

\* every profile of the call
AllProfiles ==
    [k \in 1..Len(pProfiles.by_source) |-> pProfiles.by_source[k].v]
    \o [k \in 1..Len(pProfiles.by_provider) |-> pProfiles.by_provider[k].v]

RECURSIVE SumTotals(_, _)
SumTotals(profiles, i) ==
    IF i > Len(profiles) THEN 0
    ELSE profiles[i].v.total_nodes + SumTotals(profiles, i + 1)

\* profiles, one grouping, is a partition of the nodes by the key the
\* positions in members(key) share: no key twice, every node in the group
\* of exactly one profile, every profile counting its group
Partitions(profiles, Members(_)) ==
    /\ \A a, b \in 1..Len(profiles) :
          PyEq(profiles[a].k, profiles[b].k) => a = b
    /\ \A i \in 1..Len(pNodes) :
          Cardinality({a \in 1..Len(profiles) : i \in Members(profiles[a].k)}) = 1
    /\ \A a \in 1..Len(profiles) :
          /\ profiles[a].v.total_nodes = Cardinality(Members(profiles[a].k))
          /\ profiles[a].v.total_nodes > 0
          /\ PyEq(profiles[a].v.id, profiles[a].k)
    /\ SumTotals(profiles, 1) = Len(pNodes)

\* C14: build_profiles partitions the nodes in each grouping: every node
\* is counted in exactly one by_source profile, that of the source it
\* names, and in exactly one by_provider profile, that of the provider it
\* names (its provider_id, or its source_name when it has no provider_id
\* value); the total_nodes of the by_source profiles sum to the number of
\* nodes, and so do those of the by_provider profiles.
C14_GroupingsPartition ==
    pc = "profiled" =>
        /\ Partitions(pProfiles.by_source, SourceMembers)
        /\ Partitions(pProfiles.by_provider, ProviderMembers)

\* C14 witness: four nodes of two sources, one of them of no source; two
\* carry a provider of their own and one an empty provider_id, which is
\* counted under its source
C14_Witness ==
    /\ pc = "profiled"
    /\ Len(pNodes) = 4
    /\ Len(pProfiles.by_source) = 3
    /\ Len(pProfiles.by_provider) = 3
    /\ \E a \in 1..3 :
          /\ pProfiles.by_provider[a].k = S_prov
          /\ pProfiles.by_provider[a].v.total_nodes = 2
    /\ Get(pNodes[3].extra, K_provider_id) = S_empty
    /\ \E a \in 1..3 :
          /\ pProfiles.by_provider[a].k = S_src1
          /\ 3 \in ProviderMembers(pProfiles.by_provider[a].k)

\* the nodes of a group that have a country, and those whose country is
\* in a set of codes
WithCountry(members) ==
    {i \in members : Truthy(Get(pNodes[i].extra, K_country))}
WithCountryIn(members, codes) ==
    {i \in members : Get(pNodes[i].extra, K_country) \in codes}

\* the float x is the quotient num / den
IsQuotient(x, num, den) ==
    x.t = "float" /\ x.den > 0 /\ x.num * den = num * x.den

Max(a, b) == IF a > b THEN a ELSE b

\* C15: in every profile eu_share is the number of the group's nodes with
\* an EU country over max(number of nodes with a country, 1), and
\* bad_country_share the same over the low-trust set; both are within
\* [0, 1], the division is by a positive number, and both are 0 when no
\* node of the group has a country.
C15_SharesAreBoundedQuotients ==
    pc = "profiled" =>
        \A g \in 1..Len(GroupsProfiled) :
            LET p == GroupsProfiled[g].profile
                m == GroupsProfiled[g].members
                known == Cardinality(WithCountry(m))
            IN  /\ IsQuotient(p.eu_share,
                              Cardinality(WithCountryIn(m, profiler_eu_countries)),
                              Max(known, 1))
                /\ IsQuotient(p.bad_country_share,
                              Cardinality(WithCountryIn(m, bad_countries)),
                              Max(known, 1))
                /\ 0 <= p.eu_share.num /\ p.eu_share.num <= p.eu_share.den
                /\ 0 <= p.bad_country_share.num
                /\ p.bad_country_share.num <= p.bad_country_share.den
                /\ known = 0 =>
                       p.eu_share.num = 0 /\ p.bad_country_share.num = 0

\* C15 witness: one profile of a group of three nodes none of which has a
\* country (both shares 0), and one call with shares 7/10 and 1/10
C15_Witness ==
    /\ pc = "profiled"
    /\ \E g \in 1..Len(GroupsProfiled) :
          LET p == GroupsProfiled[g].profile
          IN  /\ p.total_nodes = 3
              /\ WithCountry(GroupsProfiled[g].members) = {}
              /\ p.country_stats = <<>>
              /\ p.eu_share = Float(0, 1)
              /\ p.bad_country_share = Float(0, 1)

\* the score of the formula, in thousandths, for shares of one denominator
FormulaScore(eu_share, bad_share, alive_ratio, total_nodes) ==
    LET alive == IF alive_ratio.t = "none" THEN Float(0, 1) ELSE alive_ratio
    IN  RoundThousandths(
            (2000 * eu_share.num - 3000 * bad_share.num) * alive.den
                + 1500 * alive.num * eu_share.den,
            eu_share.den * alive.den,
            Log1pTable[total_nodes + 1])

SameInputs(p, q) ==
    /\ p.eu_share.num * q.eu_share.den = q.eu_share.num * p.eu_share.den
    /\ p.bad_country_share.num * q.bad_country_share.den
           = q.bad_country_share.num * p.bad_country_share.den
    /\ p.alive_ratio.t = q.alive_ratio.t
    /\ p.alive_ratio.num * q.alive_ratio.den = q.alive_ratio.num * p.alive_ratio.den
    /\ p.total_nodes = q.total_nodes

\* C16: the score of every profile is round(2.0 * eu_share - 3.0 *
\* bad_country_share + 1.5 * (alive_ratio or 0) + 0.2 * ln(1 + total_nodes),
\* 3) of the profile's own four values, and two profiles of a call with
\* equal values of the four have equal scores.
C16_ScoreIsTheFormula ==
    pc = "profiled" =>
        /\ \A g \in 1..Len(AllProfiles) :
              LET p == AllProfiles[g]
              IN  /\ p.eu_share.den = p.bad_country_share.den
                  /\ p.score = FormulaScore(p.eu_share, p.bad_country_share,
                                            p.alive_ratio, p.total_nodes)
        /\ \A g, h \in 1..Len(AllProfiles) :
              SameInputs(AllProfiles[g], AllProfiles[h])
                  => AllProfiles[g].score
                         = AllProfiles[h].score

\* C16 witness: a group of ten with shares 7/10 and 1/10 and half of its
\* nodes alive, whose score is
\* round(1.4 - 0.3 + 0.75 + 0.2 * ln 11, 3) = 2.330, and a second group of
\* the call with the same four values, other ASNs and the same score
C16_Witness ==
    /\ pc = "profiled"
    /\ \E g, h \in 1..Len(AllProfiles) :
          LET p == AllProfiles[g]
              q == AllProfiles[h]
          IN  /\ p.total_nodes = 10
              /\ p.eu_share = Float(7, 10)
              /\ p.bad_country_share = Float(1, 10)
              /\ p.alive_ratio = Float(5, 10)
              /\ p.score = 2330
              /\ g # h
              /\ SameInputs(p, q)
              /\ p.id # q.id
              /\ p.asn_stats # q.asn_stats
              /\ q.score = 2330

HasTag(p, tag) == \E i \in 1..Len(p.tags) : p.tags[i] = tag

\* C17: a profile carries blacklist_candidate if and only if
\* bad_country_share >= 0.5, or alive_ratio is known and alive_ratio <= 0.1.
C17_BlacklistIffBadOrKnownDead ==
    pc = "profiled" =>
        \A g \in 1..Len(AllProfiles) :
            LET p == AllProfiles[g]
            IN  HasTag(p, "blacklist_candidate")
                    <=> \/ AtLeast(p.bad_country_share, 5, 10)
                        \/ p.alive_ratio.t # "none" /\ AtMost(p.alive_ratio, 1, 10)

\* alive_ratio taken as 0 when unknown
AliveOrZero(p) == IF p.alive_ratio.t = "none" THEN Float(0, 1) ELSE p.alive_ratio

\* C18: a profile carries whitelist_candidate if and only if eu_share >=
\* 0.7 and bad_country_share <= 0.1 and (alive_ratio or 0) >= 0.5 and
\* total_nodes >= the configured minimum, each threshold inclusive.
C18_WhitelistIffAllFour ==
    pc = "profiled" =>
        \A g \in 1..Len(AllProfiles) :
            LET p == AllProfiles[g]
            IN  HasTag(p, "whitelist_candidate")
                    <=> /\ 10 * p.eu_share.num >= 7 * p.eu_share.den
                        /\ 10 * p.bad_country_share.num <= p.bad_country_share.den
                        /\ 2 * AliveOrZero(p).num >= AliveOrZero(p).den
                        /\ p.total_nodes >= pMinNodes

\* C18 witness: a profile that meets each of the four thresholds exactly
\* (shares 7/10 and 1/10, alive ratio 1/2, as many nodes as the minimum)
\* and carries the tag
C18_Witness ==
    /\ pc = "profiled"
    /\ pMinNodes = 10
    /\ \E g \in 1..Len(AllProfiles) :
          LET p == AllProfiles[g]
          IN  /\ p.total_nodes = 10
              /\ p.eu_share = Float(7, 10)
              /\ p.bad_country_share = Float(1, 10)
              /\ p.alive_ratio = Float(5, 10)
              /\ HasTag(p, "whitelist_candidate")

\* the addresses of a group: the distinct non-empty ip values; its ASNs:
\* the asn values other than None
Addresses(members) ==
    {Get(pNodes[i].extra, K_ip) :
        i \in {j \in members : Truthy(Get(pNodes[j].extra, K_ip))}}
WithAsn(members) == {i \in members : Get(pNodes[i].extra, K_asn) # VNone}
Asns(members) == {Get(pNodes[i].extra, K_asn) : i \in WithAsn(members)}
LargestAsnCount(members) ==
    IF WithAsn(members) = {} THEN 0
    ELSE LET sizes == {Cardinality({i \in WithAsn(members) :
                                       Get(pNodes[i].extra, K_asn) = a}) :
                          a \in Asns(members)}
         IN  CHOOSE s \in sizes : \A t \in sizes : t <= s

\* the source type of the rules of C19
TypeByRules(total_nodes, unique_ips, largest, distinct) ==
    IF total_nodes < 10 THEN "unknown"
    ELSE IF 10 * largest >= 7 * total_nodes /\ 10 * unique_ips <= 4 * total_nodes
    THEN "first_party"
    ELSE IF distinct >= 15 /\ 100 * unique_ips >= 75 * total_nodes
    THEN "aggregator"
    ELSE "unknown"

\* C19: the source type of every profile is unknown below 10 nodes;
\* from 10 nodes on it is first_party iff largest ASN count / total_nodes
\* >= 0.7 and unique_ips / total_nodes <= 0.4, otherwise aggregator iff
\* the distinct ASNs are 15 or more and unique_ips / total_nodes >= 0.75,
\* otherwise unknown, where unique_ips counts the distinct non-empty ip
\* values and the ASN histogram the nodes that have an ASN; the tags have
\* first_party_like exactly for first_party and aggregator_like exactly
\* for aggregator.
C19_SourceTypeByRules ==
    pc = "profiled" =>
        \A g \in 1..Len(GroupsProfiled) :
            LET p == GroupsProfiled[g].profile
                m == GroupsProfiled[g].members
            IN  /\ p.unique_ips = Cardinality(Addresses(m))
                /\ SumValues(p.asn_stats, 1) = Cardinality(WithAsn(m))
                /\ p.source_type =
                       TypeByRules(Cardinality(m), Cardinality(Addresses(m)),
                                   LargestAsnCount(m), Cardinality(Asns(m)))
                /\ HasTag(p, "first_party_like") <=> p.source_type = "first_party"
                /\ HasTag(p, "aggregator_like") <=> p.source_type = "aggregator"

\* C19 witness: a call with a group of twenty nodes with exactly 15 ASNs
\* and 15 addresses, an aggregator
C19_Witness ==
    /\ pc = "profiled"
    /\ \E g \in 1..Len(GroupsProfiled) :
          LET p == GroupsProfiled[g].profile
          IN  /\ p.total_nodes = 20
              /\ p.unique_ips = 15
              /\ Len(p.asn_stats) = 15
              /\ p.source_type = "aggregator"
              /\ HasTag(p, "aggregator_like")
              /\ ~HasTag(p, "first_party_like")


-----------------------------------------------------------------------------
(* C20: the groups the repacker writes.                                    *)

\* the rebuilt descriptor of node i of the call
RebuiltUri(i) == Repacked(rConfig.format_template, rNodes[i]).uri

\* a country value that names a country: a string that is not empty
IsCountryCode(v) == v.t = "str" /\ v.s # <<>>

\* the country group a node belongs to: its country code, else the sentinel
CountryGroupOf(node) ==
    LET c == Get(node.extra, K_country)
    IN  IF IsCountryCode(c) THEN c ELSE S_XX

\* the country key repack stores a node under
StoredCountryOf(node) == Repacked(rConfig.format_template, node).country

\* the positions of the nodes of the call whose key is key
PositionsOf(key, KeyOf(_)) ==
    InOrder({i \in 1..Len(rNodes) : PyEq(KeyOf(rNodes[i]), key)})

\* groups holds, for every key of a node, one group with the rebuilt
\* descriptors of exactly the nodes of that key in input order, and no
\* other group
PlacedOnce(groups, KeyOf(_)) ==
    /\ \A i \in 1..Len(rNodes) :
          Cardinality({g \in 1..Len(groups) :
                          PyEq(groups[g].k, KeyOf(rNodes[i]))}) = 1
    /\ \A g \in 1..Len(groups) :
          LET at == PositionsOf(groups[g].k, KeyOf)
          IN  /\ at # <<>>
              /\ groups[g].uris = [k \in 1..Len(at) |-> RebuiltUri(at[k])]

ProtocolOf(node) == ProtocolName(node.protocol)

\* C20 (as stated): after repack of a list that is not empty, every enabled
\* grouping holds the rebuilt descriptor of every node exactly once, in
\* input order, in the group of its protocol and in the group of its
\* country; a node without a usable country is in the group of the
\* sentinel XX, and every country key is a country code or the sentinel.
C20_EveryNodeOnceInItsGroups ==
    (pc = "repacked" /\ rNodes # <<>>) =>
        /\ rConfig.split_by_type => PlacedOnce(rOut.by_type, ProtocolOf)
        /\ rConfig.split_by_country =>
              /\ PlacedOnce(rOut.by_country, CountryGroupOf)
              /\ \A g \in 1..Len(rOut.by_country) :
                    IsCountryCode(rOut.by_country[g].k)

\* what repack does instead: the nodes are placed once under the value the
\* country key holds, whatever it is, and the sentinel stands only for a
\* key that is absent
RepackPlacesByStoredCountry ==
    (pc = "repacked" /\ rNodes # <<>>) =>
        /\ rConfig.split_by_type => PlacedOnce(rOut.by_type, ProtocolOf)
        /\ rConfig.split_by_country =>
              PlacedOnce(rOut.by_country, StoredCountryOf)

\* a call that files a node whose country is None under the key None
RepackFilesUnderNone ==
    /\ pc = "repacked"
    /\ \E g \in 1..Len(rOut.by_country) :
          /\ rOut.by_country[g].k = VNone
          /\ rOut.by_country[g].file = <<"N", "o", "n", "e">> \o S_txt

-----------------------------------------------------------------------------
(* C29: tags that exclude each other.                                      *)

\* C29: no profile carries both whitelist_candidate and
\* blacklist_candidate, and none carries both first_party_like and
\* aggregator_like, whatever the group and the configured minimum.
C29_TagsExcludeEachOther ==
    pc = "profiled" =>
        \A g \in 1..Len(AllProfiles) :
            LET p == AllProfiles[g]
            IN  /\ ~(HasTag(p, "whitelist_candidate")
                        /\ HasTag(p, "blacklist_candidate"))
                /\ ~(HasTag(p, "first_party_like")
                        /\ HasTag(p, "aggregator_like"))

\* C29 witness: a profile as near to both candidate tags as the thresholds
\* allow (low-trust share 1/10, alive ratio 1/2) that is a whitelist
\* candidate only, in a call that also returns a profile tagged with a
\* source type
C29_Witness ==
    /\ pc = "profiled"
    /\ \E g \in 1..Len(AllProfiles) :
          LET p == AllProfiles[g]
          IN  /\ p.bad_country_share = Float(1, 10)
              /\ p.alive_ratio = Float(5, 10)
              /\ HasTag(p, "whitelist_candidate")
              /\ ~HasTag(p, "blacklist_candidate")
    /\ \E g \in 1..Len(AllProfiles) :
          \/ HasTag(AllProfiles[g], "first_party_like")
          \/ HasTag(AllProfiles[g], "aggregator_like")

-----------------------------------------------------------------------------
(* C25: the credential pair of an ss descriptor.                           *)

\* the part of an ss line before the first @
CredPartOf(line) ==
    SplitFirst(From(SplitRemark(Strip(line)).uri_part, 5), "@").head

\* the pair the decoding rules give: base64 of method:secret, else the
\* literal method:secret, else the whole part as the secret of no method
PairByRules(cred_part, decoded) ==
    IF decoded.ok /\ Contains(decoded.s, ":") THEN MethodPassword(decoded.s)
    ELSE IF Contains(cred_part, ":") THEN MethodPassword(cred_part)
    ELSE [method |-> <<>>, password |-> cred_part]

\* C25 (as stated): for every ss line parse accepts, the credential part is
\* decoded as base64 into method:secret; failing that it is split at its
\* first colon; without a colon the whole part is the secret and the method
\* is empty. The node's secret is populated and its identity token is not.
C25_SsCredentialByRules ==
    (pc = "parsed" /\ lNode.kind = "node" /\ lNode.node.protocol = "ss") =>
        LET pair == PairByRules(CredPartOf(lLine),
                                B64DecodeText(CredPartOf(lLine)))
        IN  /\ lNode.node.password = VStr(pair.password)
            /\ Get(lNode.node.extra, K_method) = VStr(pair.method)
            /\ lNode.node.uuid = VNone

\* what parse_ss does: as the rules say when the part decodes or holds a
\* colon; a part without a colon becomes the method, and the secret is empty
SsBarePartIsTheMethod ==
    (pc = "parsed" /\ lNode.kind = "node" /\ lNode.node.protocol = "ss") =>
        LET part == CredPartOf(lLine)
            decoded == B64DecodeText(part)
        IN  /\ lNode.node.uuid = VNone
            /\ lNode.node.password.t = "str"
            /\ (decoded.ok /\ Contains(decoded.s, ":")) =>
                  /\ lNode.node.password = VStr(MethodPassword(decoded.s).password)
                  /\ Get(lNode.node.extra, K_method) = VStr(MethodPassword(decoded.s).method)
            /\ (~(decoded.ok /\ Contains(decoded.s, ":")) /\ Contains(part, ":")) =>
                  /\ lNode.node.password = VStr(MethodPassword(part).password)
                  /\ Get(lNode.node.extra, K_method) = VStr(MethodPassword(part).method)
            /\ (~(decoded.ok /\ Contains(decoded.s, ":")) /\ ~Contains(part, ":")) =>
                  /\ lNode.node.password = VStr(<<>>)
                  /\ Get(lNode.node.extra, K_method) = VStr(part)

\* an accepted ss line whose credential part "mp" has no colon
SsBareCredentialAccepted ==
    /\ pc = "parsed" /\ lNode.kind = "node" /\ lNode.node.protocol = "ss"
    /\ CredPartOf(lLine) = <<"m", "p">>

-----------------------------------------------------------------------------
(* C26: batching.                                                          *)

RECURSIVE Concatenated(_, _)
Concatenated(chunks, i) ==
    IF i > Len(chunks) THEN <<>>
    ELSE chunks[i] \o Concatenated(chunks, i + 1)

\* the number of positions of keys that hold key
Occurrences(keys, key) == Cardinality({i \in 1..Len(keys) : keys[i] = key})

\* every batch but the last has k entries, the last has between 1 and k
BatchSizes(chunks, k) ==
    /\ \A j \in 1..(Len(chunks) - 1) : Len(chunks[j]) = k
    /\ chunks # <<>> => Len(chunks[Len(chunks)]) \in 1..k

\* C26: with batch size k >= 1 the batches concatenated in order are the
\* input list in input order, every batch but the last has exactly k
\* entries, the last has between 1 and k and none is empty; the batches of
\* the variant that shuffles first hold the same multiset as the input.
C26_BatchesPartition ==
    /\ pc \in {"chunked", "chunked_shuffled"} =>
          /\ Concatenated(cChunks, 1) = cKeys
          /\ BatchSizes(cChunks, cPerChunk)
    /\ pc = "chunked_shuffled" =>
          /\ BatchSizes(cShuffledChunks, cPerChunk)
          /\ Concatenated(cShuffledChunks, 1) = cShuffled
          /\ \A key \in KeyPool :
                Occurrences(Concatenated(cShuffledChunks, 1), key)
                    = Occurrences(cKeys, key)

\* C26 witness: four keys, two of them equal, in batches of three: a full
\* batch and a last batch of one, and a shuffle that changed the order
C26_Witness ==
    /\ pc = "chunked_shuffled"
    /\ Len(cKeys) = 4 /\ cPerChunk = 3
    /\ \E i, j \in 1..4 : i # j /\ cKeys[i] = cKeys[j]
    /\ Len(cChunks) = 2 /\ Len(cChunks[1]) = 3 /\ Len(cChunks[2]) = 1
    /\ Len(cShuffledChunks) = 2
    /\ cShuffled # cKeys

-----------------------------------------------------------------------------
(* C21..C24, C27, C28: the pipeline runs.                                  *)

\* the files a run has written
FilesOf(run) == {f \in uFiles : f.run = run}

\* C22: when _load_config fails the run ends at startup before any side
\* effect: it has made no directory, requested no source and written no
\* raw, profile, descriptor or report file.
C22_FailedLoadHasNoEffect ==
    pc = "failed" =>
        /\ uLoaded # "ok"
        /\ uMade = {}
        /\ uFetched = {}
        /\ FilesOf(uRun) = {}

\* C22 witness: a second run that ended at a configuration that is not
\* YAML, in a directory that holds the files of the first run
C22_Witness ==
    /\ pc = "failed" /\ uRun = 2 /\ uLoaded = "yaml_error"
    /\ \E f \in uFiles : f.dir = "out/by_country" /\ f.run = 1

\* the profiles of a run, of sources and of providers
ProfilesOf(profiles) ==
    {profiles.by_source[k].v : k \in 1..Len(profiles.by_source)}
        \cup {profiles.by_provider[k].v : k \in 1..Len(profiles.by_provider)}

\* C27: in a run of the pipeline no node given to build_profiles has
\* alive = False, so every profile has an alive_ratio of None or of exactly
\* 1.0, and the alive_ratio <= 0.1 half of the blacklist rule is taken
\* only by a profile whose alive_ratio is None.
C27_NoDeadNodeIsProfiled ==
    pc = "repack" =>
        /\ \A i \in 1..Len(uGiven) : Get(uGiven[i].extra, K_alive) # PyFalse
        /\ \A p \in ProfilesOf(uProfiles) :
              /\ \/ p.alive_ratio = NoFloat
                 \/ /\ p.alive_ratio.t = "float"
                    /\ p.alive_ratio.num = p.alive_ratio.den
              /\ AtMost(IF p.alive_ratio.t # "none" THEN p.alive_ratio
                        ELSE Float(0, 1), 1, 10)
                     => p.alive_ratio = NoFloat

\* C27 happens: the filter dropped a node with alive = False, and the
\* profiles of what is left have an alive_ratio of 1.0
C27_Witness ==
    /\ pc = "repack"
    /\ uStats.dropped_filter > 0
    /\ uGiven # <<>>
    /\ \E p \in ProfilesOf(uProfiles) : p.alive_ratio.t = "float"

\* the value of key k in a bag, or the default where the key is absent or
\* holds None
ValueOrDefault(d, k, default) ==
    IF Get(d, k) = VNone THEN default ELSE Get(d, k)

\* C21: the label of every node that reached repack after parsing,
\* enrichment and filtering has, for {country}, {ping} and {asn}, the
\* node's value or the default ("XX", 0, 0), and the default where a lookup
\* missed; it never has the text of None.
C21_LabelHasValueOrDefault ==
    pc \in {"report", "done", "loaded"} =>
        \A i \in 1..Len(uLabels) :
            uLabels[i] =
                VStr(Format(LoadedConfig.output.format_template,
                            ValueOrDefault(uNodes[i].extra, K_country, S_XX),
                            ValueOrDefault(uNodes[i].extra, K_ping, VInt(0)),
                            ValueOrDefault(uNodes[i].extra, K_asn, VInt(0)),
                            ProtocolName(uNodes[i].protocol)))

\* the label the code renders: the node's value where the key is present,
\* None included, and the default only where the key is absent
LabelHasStoredValue ==
    pc \in {"report", "done", "loaded"} =>
        \A i \in 1..Len(uLabels) :
            uLabels[i] =
                VStr(Format(LoadedConfig.output.format_template,
                            IF Has(uNodes[i].extra, K_country)
                            THEN Get(uNodes[i].extra, K_country) ELSE S_XX,
                            IF Has(uNodes[i].extra, K_ping)
                            THEN Get(uNodes[i].extra, K_ping) ELSE VInt(0),
                            IF Has(uNodes[i].extra, K_asn)
                            THEN Get(uNodes[i].extra, K_asn) ELSE VInt(0),
                            ProtocolName(uNodes[i].protocol)))

\* a node whose ASN lookup missed was labelled
LabelAfterAsnMiss ==
    /\ pc = "report"
    /\ \E i \in 1..Len(uNodes) :
          /\ Has(uNodes[i].extra, K_asn)
          /\ Get(uNodes[i].extra, K_asn) = VNone

\* the directories of the descriptor files and of the profile files
OutputDirs ==
    {"out/by_type", "out/by_country",
     "sources_meta/profiles", "sources_meta/providers"}

\* C28: over runs that share the directories, after a run every descriptor
\* file and every profile file present was written by that run, and the
\* batch builder reads no key that an earlier run wrote.
C28_FilesAreOfThisRun ==
    /\ pc \in {"done", "loaded"} =>
          \A f \in uFiles : f.dir \in OutputDirs => f.run = uRun
    /\ pc = "loaded" =>
          \A i \in 1..Len(uKeys) : uKeys[i].run = uRun

\* what the code does: the files of the groups the run produced are those
\* it wrote, and every other file is as the run found it
RunWritesOnlyItsGroups ==
    pc \in {"done", "loaded"} =>
        /\ \A k \in 1..Len(uOut.by_country) :
              [dir |-> "out/by_country", name |-> uOut.by_country[k].file,
               text |-> uOut.by_country[k].text, run |-> uRun] \in uFiles
        /\ \A k \in 1..Len(uOut.by_type) :
              [dir |-> "out/by_type", name |-> uOut.by_type[k].file,
               text |-> uOut.by_type[k].text, run |-> uRun] \in uFiles
        /\ \A f \in uFiles :
              (f.dir = "out/by_country" /\ f.run # uRun) =>
                  \A k \in 1..Len(uOut.by_country) :
                      uOut.by_country[k].file # f.name

\* a run without nodes has ended, and the batch builder has read the keys
\* of the run before it
StaleKeysRead ==
    /\ pc = "loaded" /\ uRun = 2 /\ uNodes = <<>>
    /\ uKeys # <<>>
    /\ \A i \in 1..Len(uKeys) : uKeys[i].run = 1

\* C23: NodeFilter.apply, Profiler.build_profiles and Repacker.repack,
\* rebuild_uri with the new label included, leave every field and every
\* bag entry of every node they were given as it was, and leave the list
\* they were given in its order and at its length; what the filter returns
\* is made of nodes of that list, unchanged and in their order.
C23_OnlyEnrichmentMutates ==
    [][(pc \in {"filter", "profile", "repack"} /\ pc' # pc) =>
          /\ uGiven' = uNodes
          /\ pc \in {"profile", "repack"} => uNodes' = uNodes
          /\ pc = "filter" =>
                \E at \in [1..Len(uNodes') -> 1..Len(uNodes)] :
                    /\ \A i \in 1..Len(uNodes') : uNodes'[i] = uNodes[at[i]]
                    /\ \A i, j \in 1..Len(uNodes') : i < j => at[i] < at[j]]_vars

\* C23 happens: the filter has dropped a node and a vmess node, enriched and
\* kept, has been through the profiler and through rebuild_uri with its
\* new label
C23_Witness ==
    /\ pc = "report"
    /\ uStats.dropped_filter > 0
    /\ \E i \in 1..Len(uNodes) :
          /\ uNodes[i].protocol = "vmess"
          /\ Has(uNodes[i].extra, K_ip)
          /\ uLabels[i] # VNone

\* C24: an empty node list gives empty, well-formed results at every stage:
\* apply returns an empty list and four counters of 0, build_profiles
\* returns no profile of a source or of a provider, enrich_all leaves the
\* empty list as it is, and repack puts no descriptor in any protocol or
\* country group.
C24_EmptyInEmptyOut ==
    /\ enrich_all(PipelineEnricher, <<>>, <<>>) = <<>>
    /\ (pc = "profile" /\ uGiven = <<>>) =>
          /\ uNodes = <<>>
          /\ uStats = [before |-> 0, dropped_dup |-> 0,
                       dropped_filter |-> 0, after |-> 0]
    /\ (pc = "repack" /\ uGiven = <<>>) =>
          /\ uProfiles.by_source = <<>>
          /\ uProfiles.by_provider = <<>>
    /\ (pc = "report" /\ uGiven = <<>>) =>
          /\ uOut.by_type = <<>>
          /\ uOut.by_country = <<>>
          /\ uLabels = <<>>

\* C24 happens: a run whose source gave no node has been through the
\* filter, the profiler and the repacker
C24_Witness ==
    /\ pc = "report"
    /\ uLoaded = "ok"
    /\ uGiven = <<>>
    /\ uStats.before = 0
    /\ uProfiles = NoProfiles

=============================================================================
